---------------------------- MODULE Spec2Model ----------------------------
(***************************************************************************)
(* Model of the map scanner (cortega26/map_scanner).                       *)
(*                                                                         *)
(* Three specifications share the definitions below.                       *)
(*   Spec       the program: main -> MapScanner.execute_scan ->            *)
(*              initialize, calibrate_zoom, perform_scan / test mode, with *)
(*              the interrupt signal and the loss of the window as         *)
(*              environment actions.                                       *)
(*   SpecScript MapScanner.perform_scan on an initialized scanner whose    *)
(*              ScreenCapture.capture_and_detect_movement is a test double *)
(*              that returns a scripted outcome (any boolean) per call.    *)
(*   SpecUnit   single calls of the leaf functions with inputs drawn from  *)
(*              bounded sets.                                              *)
(*                                                                         *)
(* Pixels are integers.  A similarity is kept in tenths of a percent, so   *)
(* 98.0% is 980; a quality weight and a quality score are kept in tenths,  *)
(* so the weight 0.3 is 3 and the score 100.0 is 1000.  int(w * 0.06) and the like are (w * 6) \div 100, which   *)
(* agrees with the float computation on every width and height used here.  *)
(***************************************************************************)
EXTENDS Integers, Sequences, FiniteSets, TLC

\* Python's None, where an image, a rectangle or an area is expected
None == <<>>

(***************************************************************************)
(* config.py                                                               *)
(***************************************************************************)
WindowConfig ==
    [ MIN_WINDOW_WIDTH  |-> 500,
      MIN_WINDOW_HEIGHT |-> 300,
      UI_MARGINS        |-> [left |-> 6, right |-> 12, top |-> 8, bottom |-> 12] ]

CaptureConfig ==
    [ DEFAULT_CAPTURE_SIZE       |-> <<500, 400>>,
      BASE_STEP_SIZE             |-> 900,
      TARGET_OVERLAP_PERCENT     |-> 15,
      MAX_COLUMNS_PER_ROW        |-> 100,
      MAX_ROWS_TOTAL             |-> 50,
      MAX_CORNER_SEARCH_ATTEMPTS |-> 200 ]

OCRConfig ==
    [ MIN_TEXT_LENGTH          |-> 2,
      MIN_CONFIDENCE_THRESHOLD |-> 20,
      MIN_QUALITY_THRESHOLD    |-> 25 ]

ScanConfig ==
    [ DEFAULT_MAX_ROWS     |-> 20,
      SIMILARITY_THRESHOLD |-> 980,
      QUALITY_WEIGHTS      |-> [confidence |-> 3, size |-> 2, count |-> 2,
                                readability |-> 3],
      ZOOM_LEVELS_TO_TEST  |-> << <<1, 2>>, <<2, 2>>, <<3, 2>>,
                                  <<-1, 2>>, <<-2, 2>>, <<-3, 2>> >> ]

\* Python's attribute lookup on a class: a name the class body does not set
\* raises AttributeError.
HasAttr(cls, name) == name \in DOMAIN cls

(***************************************************************************)
(* utils.py                                                                *)
(***************************************************************************)
Min(a, b) == IF a <= b THEN a ELSE b
Max(a, b) == IF a >= b THEN a ELSE b

\* int(value * percent / 100) for value >= 0
IntPercent(value, percent) == (value * percent) \div 100

safe_clamp_upper_only(value, min_val, max_val) == Min(value, max_val)

safe_clamp(value, min_val, max_val) == Max(min_val, Min(value, max_val))

(***************************************************************************)
(* Strings: a string is the sequence of its characters                     *)
(***************************************************************************)
UpperCase == << "A", "B", "C", "D", "E", "F", "G", "H", "I", "J", "K", "L", "M",
                "N", "O", "P", "Q", "R", "S", "T", "U", "V", "W", "X", "Y", "Z" >>
LowerCase == << "a", "b", "c", "d", "e", "f", "g", "h", "i", "j", "k", "l", "m",
                "n", "o", "p", "q", "r", "s", "t", "u", "v", "w", "x", "y", "z" >>

\* str.lower()
lower(text) ==
    [ i \in 1..Len(text) |->
        IF \E k \in 1..26 : UpperCase[k] = text[i]
        THEN LowerCase[CHOOSE k \in 1..26 : UpperCase[k] = text[i]]
        ELSE text[i] ]

\* str.strip(): whitespace off both ends
strip(text) ==
    LET solid == { i \in 1..Len(text) : text[i] # " " }
    IN  IF solid = {} THEN <<>>
        ELSE SubSeq(text, CHOOSE i \in solid : \A k \in solid : i <= k,
                          CHOOSE i \in solid : \A k \in solid : i >= k)

\* needle in haystack
contains(needle, haystack) ==
    \E i \in 0..(Len(haystack) - Len(needle)) :
        SubSeq(haystack, i + 1, i + Len(needle)) = needle

\* str.split(): the maximal runs of non-whitespace characters, in order
RECURSIVE split(_)
split(text) ==
    LET t == strip(text)
        blanks == { i \in 1..Len(t) : t[i] = " " }
    IN  IF t = <<>> THEN <<>>
        ELSE IF blanks = {} THEN << t >>
        ELSE LET b == CHOOSE i \in blanks : \A k \in blanks : i <= k
             IN  << SubSeq(t, 1, b - 1) >> \o split(SubSeq(t, b + 1, Len(t)))

\* re.sub(r'^<open>.*?<close>', '', text): a leading tag that opens with the
\* first character and closes at the first closing character after it
sub_leading_tag(open, close, text) ==
    LET closers == { i \in 2..Len(text) : text[i] = close }
    IN  IF text # <<>> /\ text[1] = open /\ closers # {}
        THEN SubSeq(text, (CHOOSE i \in closers : \A k \in closers : i <= k) + 1,
                    Len(text))
        ELSE text

\* re.sub(r'^.*?\|', '', text): everything up to the first bar
sub_leading_bar(text) ==
    LET bars == { i \in 1..Len(text) : text[i] = "|" }
    IN  IF bars # {}
        THEN SubSeq(text, (CHOOSE i \in bars : \A k \in bars : i <= k) + 1, Len(text))
        ELSE text

\* utils.py, lines 22-44: each of the five patterns is applied once, in order
extract_player_name_from_alliance_tag(text) ==
    LET c1 == strip(sub_leading_tag("[", "]", text))
        c2 == strip(sub_leading_tag("(", ")", c1))
        c3 == strip(sub_leading_tag("{", "}", c2))
        c4 == strip(sub_leading_tag("<", ">", c3))
        c5 == strip(sub_leading_bar(c4))
    IN  IF c5 # <<>> THEN c5 ELSE text

\* client_rect is (x, y, right, bottom); the result is (x, y, width, height)
calculate_effective_area(client_rect, ui_margins) ==
    LET window_width  == client_rect[3] - client_rect[1]
        window_height == client_rect[4] - client_rect[2]
        left_margin   == IntPercent(window_width, ui_margins.left)
        right_margin  == IntPercent(window_width, ui_margins.right)
        top_margin    == IntPercent(window_height, ui_margins.top)
        bottom_margin == IntPercent(window_height, ui_margins.bottom)
    IN  << client_rect[1] + left_margin,
           client_rect[2] + top_margin,
           window_width - left_margin - right_margin,
           window_height - top_margin - bottom_margin >>

\* Capture sizes and overlap percentages for calculate_overlap_step
OverlapSizes == { 0, 1, 5, 10, 25, 240, 400, 500, 576, 768 }
OverlapPercents == { 0, 10, 15, 20, 50, 80, 90, 100 }

\* The pairs of OverlapSizes x OverlapPercents on which the float product
\* capture_size * (1 - overlap_percent / 100) lies just below the whole number
\* capture_size * (100 - overlap_percent) / 100, so that int() gives one less
\* (1 - 80 / 100 is 0.19999999999999996): no pair with 15 percent, nor of any
\* capture size up to 2000 with 15 percent, is among them
FloatShort ==
    { <<5, 80>>, <<10, 80>>, <<10, 90>>, <<25, 80>>, <<240, 80>>, <<240, 90>>,
      <<400, 80>>, <<400, 90>>, <<500, 80>>, <<500, 90>> }

calculate_overlap_step_rounding_up(capture_size, overlap_percent) ==
    (capture_size * (100 - overlap_percent) + 99) \div 100

\* utils.py, line 142: int(capture_size * (1 - overlap_percent / 100))
calculate_overlap_step(capture_size, overlap_percent) ==
    IntPercent(capture_size, 100 - overlap_percent)
        - (IF << capture_size, overlap_percent >> \in FloatShort THEN 1 ELSE 0)

readability_score_saturating_early(readable_words) == Min(readable_words * 25, 75)

\* utils.py, line 200
readability_score(readable_words) == Min(readable_words * 25, 100)

\* utils.py, lines 161-210: the score in tenths
calculate_quality_score(confidence, height, text_count, readable_words, weights) ==
    LET confidence_score == Min(confidence, 100)
        size_score == IF 12 <= height /\ height <= 25 THEN 100
                      ELSE IF 8 <= height /\ height < 12 THEN 85
                      ELSE IF 25 < height /\ height <= 35 THEN 85
                      ELSE IF height < 8 THEN 50
                      ELSE 70
        count_score == Min(text_count * 15, 100)
    IN  confidence_score * weights.confidence
          + size_score * weights.size
          + count_score * weights.count
          + readability_score(readable_words) * weights.readability

(***************************************************************************)
(* window_manager.py                                                       *)
(***************************************************************************)
calculate_optimal_capture_size(effective_game_area) ==
    << Max(IntPercent(effective_game_area[3], 85), 600),
       Max(IntPercent(effective_game_area[4], 80), 500) >>

(***************************************************************************)
(* screen_capture.py                                                       *)
(***************************************************************************)
\* The outcome of a call: the exception it ends with ("none" when it
\* returns), the value returned, and the pyautogui call it issued.
Outcome(exc, ret, op) == [exc |-> exc, ret |-> ret, op |-> op]

calculate_capture_coordinates(center_x, center_y, capture_size, effective_game_area) ==
    LET x == center_x - capture_size[1] \div 2
        y == center_y - capture_size[2] \div 2
    IN  IF effective_game_area # None
        THEN << safe_clamp(x, effective_game_area[1],
                           effective_game_area[1] + effective_game_area[3] - capture_size[1]),
                safe_clamp(y, effective_game_area[2],
                           effective_game_area[2] + effective_game_area[4] - capture_size[2]) >>
        ELSE << x, y >>

capture_screen_ignoring_flag(cap, running_flag, shot_fails) ==
    IF shot_fails
    THEN Outcome("CaptureError", None, "screenshot")
    ELSE Outcome("none",
                 << calculate_capture_coordinates(cap.center_x, cap.center_y,
                        cap.capture_size, cap.effective_game_area)[1],
                    calculate_capture_coordinates(cap.center_x, cap.center_y,
                        cap.capture_size, cap.effective_game_area)[2],
                    cap.capture_size[1], cap.capture_size[2] >>,
                 "screenshot")

\* capture_screen(running_flag); shot_fails is pyautogui.screenshot raising.
\* The value returned is the rectangle (x, y, width, height) that was grabbed.
capture_screen(cap, running_flag, shot_fails) ==
    IF ~running_flag
    THEN Outcome("SafetyExit", None, "none")
    ELSE LET xy == calculate_capture_coordinates(cap.center_x, cap.center_y,
                                                 cap.capture_size, cap.effective_game_area)
         IN  IF shot_fails
             THEN Outcome("CaptureError", None, "screenshot")
             ELSE Outcome("none",
                          << xy[1], xy[2], cap.capture_size[1], cap.capture_size[2] >>,
                          "screenshot")

\* detect_movement(before_image, after_image); similarity is what
\* cv2.matchTemplate gives for the two frames, times 100, in tenths of a percent.
\* Line 127 reads CaptureConfig.SIMILARITY_THRESHOLD; the except clause of
\* line 131 turns any exception into (False, str(e)).
detect_movement(before_image, after_image, similarity) ==
    IF before_image = None \/ after_image = None
    THEN [moved |-> FALSE, info |-> "Invalid images provided"]
    ELSE IF ~HasAttr(CaptureConfig, "SIMILARITY_THRESHOLD")
         THEN [moved |-> FALSE, info |-> "AttributeError"]
         ELSE [moved |-> similarity < CaptureConfig.SIMILARITY_THRESHOLD,
               info  |-> "similar"]

(***************************************************************************)
(* map_scanner.py: search_for_targets                                      *)
(***************************************************************************)
\* lines 357-401 for one target name: the match it contributes, or None.
\* best_text and best_confidence are what extract_text_comprehensive returned.
match_target(target_name, best_text, best_confidence) ==
    LET detected_text == lower(best_text)
        target_lower == lower(target_name)
        target_without_tags == lower(extract_player_name_from_alliance_tag(target_name))
        words == split(detected_text)
        hits == { i \in 1..Len(words) :
                    LET word == words[i]
                        word_without_tags ==
                            lower(extract_player_name_from_alliance_tag(word))
                    IN  \/ target_lower = lower(word)
                        \/ target_lower = word_without_tags
                        \/ target_without_tags = lower(word)
                        \/ target_without_tags = word_without_tags }
    IN  IF contains(target_lower, detected_text)
        THEN [ name |-> target_name, detected_text |-> best_text,
               match_type |-> "exact_full", confidence |-> best_confidence,
               ocr_strategy |-> "comprehensive" ]
        ELSE IF hits # {}
        THEN [ name |-> target_name, detected_text |-> best_text,
               matched_word |-> words[CHOOSE i \in hits : \A k \in hits : i <= k],
               match_type |-> "exact_word", confidence |-> best_confidence,
               ocr_strategy |-> "comprehensive" ]
        ELSE None

\* lines 355-401: the matches of all the target names, in their order
RECURSIVE found_targets(_, _, _)
found_targets(target_names, best_text, best_confidence) ==
    IF target_names = <<>> THEN <<>>
    ELSE LET m == match_target(Head(target_names), best_text, best_confidence)
         IN  (IF m = None THEN <<>> ELSE << m >>)
             \o found_targets(Tail(target_names), best_text, best_confidence)

\* lines 404-405: max(found_targets, key=confidence), the first of the largest
best_match(found) ==
    found[CHOOSE i \in 1..Len(found) :
            /\ \A k \in 1..Len(found) : found[k].confidence <= found[i].confidence
            /\ \A k \in 1..(i - 1) : found[k].confidence < found[i].confidence]

\* search_for_targets(image, target_names), lines 345-408, on the OCR result
\* of the image
search_for_targets(best_text, best_confidence, target_names) ==
    IF best_text = <<>>
    THEN [found |-> FALSE, info |-> None]
    ELSE LET found == found_targets(target_names, best_text, best_confidence)
         IN  IF found # <<>>
             THEN [found |-> TRUE, info |-> best_match(found)]
             ELSE [found |-> FALSE, info |-> None]

(***************************************************************************)
(* mouse_controller.py                                                     *)
(***************************************************************************)
safe_move_mouse_swallowing(running_flag, device_fails) ==
    IF ~running_flag \/ device_fails
    THEN Outcome("none", FALSE, "none")
    ELSE Outcome("none", TRUE, "moveTo")

safe_move_mouse(running_flag, device_fails) ==
    IF ~running_flag
    THEN Outcome("SafetyExit", None, "none")
    ELSE IF device_fails
         THEN Outcome("none", FALSE, "moveTo")
         ELSE Outcome("none", TRUE, "moveTo")

safe_drag(running_flag, device_fails) ==
    IF ~running_flag
    THEN Outcome("SafetyExit", None, "none")
    ELSE IF device_fails
         THEN Outcome("none", FALSE, "drag")
         ELSE Outcome("none", TRUE, "drag")

zoom_control(running_flag, device_fails) ==
    IF ~running_flag
    THEN Outcome("SafetyExit", None, "none")
    ELSE IF device_fails
         THEN Outcome("none", FALSE, "scroll")
         ELSE Outcome("none", TRUE, "scroll")

\* pyautogui.size(): the screen
ScreenSize == << 2560, 1440 >>

calculate_safe_coordinates_unclamped(mc, x, y, margin) == << x, y >>

\* _calculate_safe_coordinates(x, y, margin), lines 248-263; mc is the
\* MouseController: center_x, center_y, effective_game_area, client_rect
calculate_safe_coordinates(mc, x, y, margin) ==
    IF mc.effective_game_area # None
    THEN LET area == mc.effective_game_area
         IN  << safe_clamp(x, area[1] + margin, area[1] + area[3] - margin),
                safe_clamp(y, area[2] + margin, area[2] + area[4] - margin) >>
    ELSE IF mc.client_rect # None
    THEN << safe_clamp(x, mc.client_rect[1] + margin, mc.client_rect[3] - margin),
            safe_clamp(y, mc.client_rect[2] + margin, mc.client_rect[4] - margin) >>
    ELSE << safe_clamp(x, margin, ScreenSize[1] - margin),
            safe_clamp(y, margin, ScreenSize[2] - margin) >>

\* int(d * f) for a factor f of percent / 100: the fraction is cut off
\* towards zero
IntTimesPercent(d, percent) ==
    IF d >= 0 THEN (d * percent) \div 100 ELSE -(((-d) * percent) \div 100)

ensure_centered_start_never(mc, cursor) == cursor

\* _ensure_centered_start, lines 213-223: where the cursor is after it, when
\* pyautogui.position() gave cursor
ensure_centered_start(mc, cursor) ==
    IF \/ cursor[1] - mc.center_x > 10 \/ mc.center_x - cursor[1] > 10
       \/ cursor[2] - mc.center_y > 10 \/ mc.center_y - cursor[2] > 10
    THEN << mc.center_x, mc.center_y >>
    ELSE cursor

\* safe_drag(dx, dy), lines 138-168, with the running flag set and no device
\* failure.  cursor is pyautogui.position() at the call; jitter_x and jitter_y
\* are the factors add_variance drew, in percent.  The result has the
\* displacement handed to pyautogui.drag and the places the cursor is put at:
\* the start of the drag (_ensure_centered_start), its end, and the centre
\* (_recenter_mouse).
safe_drag_moves(mc, cursor, dx, dy, jitter_x, jitter_y) ==
    LET actual_dx == IntTimesPercent(dx, jitter_x)
        actual_dy == IntTimesPercent(dy, jitter_y)
        start == ensure_centered_start(mc, cursor)
        safe_target == calculate_safe_coordinates(mc, mc.center_x + actual_dx,
                                                  mc.center_y + actual_dy, 100)
        final_dx == safe_target[1] - mc.center_x
        final_dy == safe_target[2] - mc.center_y
    IN  [ final_dx |-> final_dx,
          final_dy |-> final_dy,
          cursor   |-> << start,
                          << start[1] + final_dx, start[2] + final_dy >>,
                          << mc.center_x, mc.center_y >> >> ]

(***************************************************************************)
(* State                                                                   *)
(***************************************************************************)
VARIABLES
    pc,          \* the statement the program is at
    harness,     \* "program", "script" or "unit": which specification runs
    running,     \* MapScanner.running
    windowValid, \* win32gui.IsWindow(hwnd), the window system's answer
    args,        \* execute_scan's arguments: max_rows, test_mode
    wm,          \* WindowManager: client_rect, effective_game_area, center_x, center_y
    scn,         \* MapScanner: capture_size, step_size, vertical_step_size,
                 \*   max_columns_per_row, optimal_zoom_level
    cal,         \* locals of calibrate_zoom
    netZoom,     \* scroll clicks the game has received, net
    loc,         \* locals of perform_scan, find_top_left_corner, _scan_row, perform_test_mode
    cadm,        \* the frame of capture_and_detect_movement
    moved,       \* what capture_and_detect_movement returned last
    results,     \* execute_scan's results
    exitCode,    \* main's return value
    obs,         \* history: what the run did so far
    call,        \* SpecUnit: the call made
    outcome      \* SpecUnit: its outcome

progVars == << pc, harness, running, windowValid, args, wm, scn, cal, netZoom,
               loc, cadm, moved, results, exitCode, obs >>
vars == << pc, harness, running, windowValid, args, wm, scn, cal, netZoom,
           loc, cadm, moved, results, exitCode, obs, call, outcome >>

(***************************************************************************)
(* Bounds and the environment's choices                                    *)
(***************************************************************************)
\* max_rows is drawn from 1..MaxRowsArg, and in the scripted harness also the
\* one value LargeMaxRows above CaptureConfig.MAX_ROWS_TOTAL, on the smallest
\* window
MaxRowsArg == 2
LargeMaxRows == 51

\* Client rectangles (x, y, right, bottom) the window system may report.
\* 500x300 is the smallest window initialize() accepts; 499x300 is refused.
Windows == { <<0, 0, 500, 300>>, <<100, 50, 1600, 950>>, <<0, 0, 2000, 1200>> }
SmallWindows == { <<0, 0, 499, 300>> }

\* Similarities (tenths of a percent) the two frames of a step may have
SimLevels == { 500, 979, 980, 1000 }

\* OCR quality scores evaluate_quality may measure
Qualities == { 0, 30 }

\* Tiles (row index, column) at which the map shows a target name
TargetTiles == { <<0, 1>>, <<0, 2>>, <<1, 1>> }

\* The target names of the run: "Bob" and "Al"
TargetNames == << <<"B", "o", "b">>, <<"A", "l">> >>

\* What extract_text_comprehensive may read in a tile: at a target tile the
\* text "[x]bob al" or nothing, elsewhere the text "sea"
TileOcr(row, col) ==
    IF << row, col >> \in TargetTiles
    THEN { [best_text |-> << "[", "x", "]", "b", "o", "b", " ", "a", "l" >>,
            best_confidence |-> 80],
           [best_text |-> <<>>, best_confidence |-> 0] }
    ELSE { [best_text |-> << "s", "e", "a" >>, best_confidence |-> 60] }

\* Every OCR result a tile may give, and search_for_targets on each of them
\* (computed once)
AllTileOcr == TileOcr(0, 1) \cup TileOcr(0, 0)
TileSearchPairs ==
    { << ocr, search_for_targets(ocr.best_text, ocr.best_confidence, TargetNames) >> :
        ocr \in AllTileOcr }
TileSearch == [ ocr \in AllTileOcr |-> (CHOOSE p \in TileSearchPairs : p[1] = ocr)[2] ]
TileFoundPairs ==
    { << ocr, found_targets(TargetNames, ocr.best_text, ocr.best_confidence) >> :
        ocr \in AllTileOcr }
TileFound == [ ocr \in AllTileOcr |-> (CHOOSE p \in TileFoundPairs : p[1] = ocr)[2] ]

\* May a pyautogui call fail?  Only the program meets failing devices; the
\* scripted harness and its collaborators are well behaved.
Fails == IF harness = "program" THEN BOOLEAN ELSE {FALSE}

NoWindow == [client_rect |-> None, effective_game_area |-> None,
             center_x |-> 0, center_y |-> 0]

\* MapScanner.__init__, lines 58-66
NewScanner ==
    [ capture_size        |-> CaptureConfig.DEFAULT_CAPTURE_SIZE,
      step_size           |-> CaptureConfig.BASE_STEP_SIZE,
      vertical_step_size  |-> 0,
      max_columns_per_row |-> CaptureConfig.MAX_COLUMNS_PER_ROW,
      max_rows_total      |-> CaptureConfig.MAX_ROWS_TOTAL,
      optimal_zoom_level  |-> 0 ]

NoCal == [stage |-> "none", idx |-> 0, image |-> None, zoom_results |-> <<>>,
          best_quality |-> 0, best_zoom_level |-> 0]

NoLoc == [attempt |-> 0, row |-> 0, col |-> 0, scan_count |-> 0, image |-> None,
          row_targets |-> <<>>, targets_found |-> <<>>,
          screenshot_num |-> 0, all_detections |-> <<>>]

NoCadm == [site |-> "none", dx |-> 0, dy |-> 0, running_flag |-> TRUE, before |-> None,
           after |-> None, similarity |-> None]

NoObs == [shot |-> None, swallowed |-> "none", cancel |-> "none", hist |-> <<>>,
          corner |-> "none", primary |-> 0]

NoCall == [fn |-> "none"]

\* WindowManager.analyze_window_and_calculate_areas on a client rectangle
AnalyzedWindow(client_rect) ==
    LET area == calculate_effective_area(client_rect, WindowConfig.UI_MARGINS)
    IN  [ client_rect         |-> client_rect,
          effective_game_area |-> area,
          center_x            |-> area[1] + area[3] \div 2,
          center_y            |-> area[2] + area[4] \div 2 ]

\* MapScanner._optimize_for_screen_size after calculate_optimal_capture_size
optimize_for_screen_size(s, effective_game_area) ==
    LET effective_width == effective_game_area[3]
        tier == IF effective_width >= 1600 THEN <<35, 150>>
                ELSE IF effective_width >= 1200 THEN <<30, 100>>
                ELSE <<25, 75>>
        recommended_step == IntPercent(effective_width, tier[1])
    IN  [ s EXCEPT
            !.max_columns_per_row = tier[2],
            !.step_size = Max(recommended_step, 400),
            !.vertical_step_size =
                Max(calculate_overlap_step(s.capture_size[2],
                                           CaptureConfig.TARGET_OVERLAP_PERCENT), 150) ]

InitializedScanner(w) ==
    optimize_for_screen_size(
        [NewScanner EXCEPT !.capture_size =
                               calculate_optimal_capture_size(w.effective_game_area)],
        w.effective_game_area)

\* The ScreenCapture object initialize() builds
Capture == [center_x |-> wm.center_x, center_y |-> wm.center_y,
            capture_size |-> scn.capture_size,
            effective_game_area |-> wm.effective_game_area]

(***************************************************************************)
(* Exceptions: which try block catches an exception raised at pc           *)
(***************************************************************************)
CadmPcs == {"cadm_before", "cadm_drag", "cadm_after", "cadm_detect"}
CalPcs  == {"cal_move", "cal_capture", "cal_eval", "cal_head", "cal_zoom",
            "cal_reset", "cal_apply"}
CornerPcs == {"corner_move", "corner_head", "corner_call1", "corner_after1",
              "corner_after2"}
ScanPcs == {"scan_move", "scan_head", "row_check", "row_capture", "row_step",
            "row_after", "scan_next", "scan_aftervert", "scan_done"}
TestPcs == {"test_move", "test_head", "test_capture", "test_analyze",
            "test_step", "test_after", "test_done"}

HandlerWithoutOuterTry(p) ==
    CASE p \in CadmPcs -> "cadm"
      [] p \in {"row_search", "cal_eval"} -> "ocr"
      [] p \in CornerPcs -> IF args.test_mode THEN "perform_test_mode" ELSE "perform_scan"
      [] p \in ScanPcs -> "perform_scan"
      [] p \in TestPcs -> "perform_test_mode"
      [] OTHER -> "main"

Handler(p) ==
    CASE p \in CadmPcs -> "cadm"
      [] p \in {"row_search", "cal_eval"} -> "ocr"
      [] p \in CalPcs \ {"cal_eval"} -> "calibrate_zoom"
      [] p = "exec_init" -> "initialize"
      [] p \in CornerPcs -> IF args.test_mode THEN "perform_test_mode" ELSE "perform_scan"
      [] p \in ScanPcs -> "perform_scan"
      [] p \in TestPcs -> "perform_test_mode"
      [] p \in {"exec_phase", "exec_ret"} -> "execute_scan"
      [] OTHER -> "main"

\* Where capture_and_detect_movement returns to
RetPc(site) ==
    CASE site = "corner1" -> "corner_after1"
      [] site = "corner2" -> "corner_after2"
      [] site = "row"     -> "row_after"
      [] site = "vert"    -> "scan_aftervert"
      [] OTHER            -> "test_after"

(***************************************************************************)
(* Raising and returning                                                   *)
(***************************************************************************)
\* What every step of the program leaves alone
Quiet == UNCHANGED << harness, args, call, outcome, running, windowValid >>

Last2(seq) == IF Len(seq) <= 2 THEN seq ELSE SubSeq(seq, Len(seq) - 1, Len(seq))

\* capture_and_detect_movement returns (m, info) to its caller
CadmReturn(m, o) ==
    /\ moved' = m
    /\ pc' = RetPc(cadm.site)
    /\ cadm' = NoCadm
    /\ obs' = [o EXCEPT !.hist = Last2(Append(@,
                    [site |-> cadm.site, dx |-> cadm.dx, dy |-> cadm.dy, moved |-> m]))]

\* An exception exc is raised at pc: the innermost try block around pc that
\* catches it decides what happens.  Every block of the call chain below main
\* catches Exception, and SafetyExit is a subclass of Exception
\* (exceptions.py, lines 8-15).
\*   capture_and_detect_movement (screen_capture.py:178)  return False, str(e)
\*   search_for_targets, evaluate_quality, extract_text_comprehensive
\*                                                      the OCR pass goes on
\*   calibrate_zoom (map_scanner.py:249)  raise CalibrationError, which
\*   execute_scan (map_scanner.py:754)    turns into return []
\*   initialize (map_scanner.py:133)      return False, so execute_scan raises
\*   perform_scan (map_scanner.py:476)    return targets_found
\*   perform_test_mode (map_scanner.py:598) return all_detections
\*   main (main.py:199-216)               exit code 0 for SafetyExit, else 1
Raise(exc, o) ==
    LET h  == Handler(pc)
        o2 == [o EXCEPT !.cancel = IF exc = "SafetyExit" /\ h # "main"
                                   THEN "SafetyExit" ELSE @]
    IN  IF h = "cadm"
        THEN /\ CadmReturn(FALSE, [o2 EXCEPT !.swallowed = exc])
             /\ UNCHANGED << results, exitCode >>
        ELSE /\ obs' = o2
             /\ UNCHANGED << moved, cadm >>
             /\ pc' = IF h = "ocr" THEN pc
                      ELSE IF h \in {"perform_scan", "perform_test_mode"} THEN "exec_ret"
                      ELSE IF h = "main" THEN "exit"
                      ELSE "main_ret"
             /\ results' = IF h = "perform_scan" THEN loc.targets_found
                           ELSE IF h = "perform_test_mode" THEN loc.all_detections
                           ELSE IF h \in {"calibrate_zoom", "initialize", "execute_scan"}
                                THEN <<>>
                           ELSE results
             /\ exitCode' = IF h = "main"
                            THEN (IF exc = "SafetyExit" THEN 0 ELSE 1)
                            ELSE exitCode

SafetyCheckLooksAtFlagOnly == running

\* MapScanner._check_safety_exit passes
SafetyCheckPasses == running /\ windowValid

\* A step that only moves on to statement p
Goto(p) ==
    /\ pc' = p
    /\ UNCHANGED << moved, cadm, results, exitCode, obs >>

\* A call of capture_and_detect_movement(mouse_controller, dx, dy, ...,
\* running_flag = self.running)
CadmCall(site, dx, dy) ==
    /\ cadm' = [site |-> site, dx |-> dx, dy |-> dy,
                running_flag |-> running, before |-> None,
                after |-> None, similarity |-> None]
    /\ pc' = "cadm_before"
    /\ obs' = [obs EXCEPT !.swallowed = "none"]
    /\ UNCHANGED << moved, results, exitCode >>

(***************************************************************************)
(* The environment                                                         *)
(***************************************************************************)
\* SIGINT or SIGTERM: signal_handler (map_scanner.py:72-76) clears the flag
\* and raises SafetyExit in whatever statement is executing.
Signal ==
    /\ harness = "program"
    /\ pc # "exit"
    /\ running' = FALSE
    /\ Raise("SafetyExit", obs)
    /\ cal' = IF Handler(pc) = "calibrate_zoom" THEN NoCal ELSE cal
    /\ UNCHANGED << harness, args, call, outcome, windowValid, wm, scn, netZoom, loc >>

\* The game window is closed: win32gui.IsWindow(hwnd) becomes false.
WindowCloses ==
    /\ harness = "program"
    /\ pc \notin {"exec_init", "exit"}
    /\ windowValid
    /\ windowValid' = FALSE
    /\ UNCHANGED << pc, harness, running, args, wm, scn, cal, netZoom, loc, cadm,
                    moved, results, exitCode, obs, call, outcome >>

(***************************************************************************)
(* execute_scan and main                                                   *)
(***************************************************************************)
window_too_small_height_only(w) == w[4] - w[2] < WindowConfig.MIN_WINDOW_HEIGHT

\* window_manager.py, lines 113-114: the client area is below the minimum size
window_too_small(w) ==
    \/ w[3] - w[1] < WindowConfig.MIN_WINDOW_WIDTH
    \/ w[4] - w[2] < WindowConfig.MIN_WINDOW_HEIGHT

\* MapScanner.initialize: the window is not found, is too small, or is
\* prepared and analysed.
Initialize ==
    /\ pc = "exec_init"
    /\ \E w \in Windows \cup SmallWindows \cup {None} :
         IF w = None
         THEN Raise("WindowError", obs) /\ UNCHANGED << wm, scn >>
         ELSE IF window_too_small(w)
              THEN Raise("WindowError", obs) /\ UNCHANGED << wm, scn >>
              ELSE /\ wm' = AnalyzedWindow(w)
                   /\ scn' = InitializedScanner(AnalyzedWindow(w))
                   /\ Goto("cal_move")
    /\ UNCHANGED << cal, netZoom, loc >>
    /\ Quiet

\* The phase of execute_scan the program is in: 0 before initialize() has
\* succeeded, 1 initialized (calibrate_zoom runs), 2 calibrated
\* (find_top_left_corner runs), 3 scanning (the rows of perform_scan or the
\* screenshots of perform_test_mode), 4 complete (execute_scan has its result)
Phase ==
    CASE pc = "exec_init" -> 0
      [] pc \in CalPcs -> 1
      [] pc = "exec_phase" \/ pc \in CornerPcs -> 2
      [] pc \in CadmPcs -> IF cadm.site \in {"corner1", "corner2"} THEN 2 ELSE 3
      [] pc \in ScanPcs \cup TestPcs \cup {"row_search"} -> 3
      [] OTHER -> 4

ExecPhaseSkipsCorner ==
    /\ pc = "exec_phase"
    /\ loc' = NoLoc
    /\ Goto(IF args.test_mode THEN "test_move" ELSE "scan_move")
    /\ UNCHANGED << wm, scn, cal, netZoom >>
    /\ Quiet

\* execute_scan after calibrate_zoom returned (true or false): lines 736-744
ExecPhase ==
    /\ pc = "exec_phase"
    /\ loc' = NoLoc
    /\ Goto("corner_move")
    /\ UNCHANGED << wm, scn, cal, netZoom >>
    /\ Quiet

\* execute_scan logs and returns results: lines 746-752
ExecReturn ==
    /\ pc = "exec_ret"
    /\ Goto("main_ret")
    /\ UNCHANGED << wm, scn, cal, netZoom, loc >>
    /\ Quiet

\* main, lines 191-197
MainReturn ==
    /\ pc = "main_ret"
    /\ pc' = "exit"
    /\ exitCode' = IF results # <<>> THEN 0 ELSE 1
    /\ UNCHANGED << moved, cadm, results, obs, wm, scn, cal, netZoom, loc >>
    /\ Quiet

(***************************************************************************)
(* calibrate_zoom                                                          *)
(***************************************************************************)
\* An exception inside calibrate_zoom: its locals are gone
RaiseInCalibrate(exc) ==
    /\ Raise(exc, obs)
    /\ cal' = NoCal

\* calibrate_zoom returns (true or false): execute_scan goes on either way
CalibrateReturns ==
    /\ cal' = NoCal
    /\ Goto("exec_phase")

\* lines 183-188
CalMove ==
    /\ pc = "cal_move"
    /\ \E f \in Fails :
         LET out == safe_move_mouse(running, f)
         IN  IF out.exc # "none" THEN RaiseInCalibrate(out.exc)
             ELSE IF ~out.ret THEN CalibrateReturns
             ELSE /\ cal' = [NoCal EXCEPT !.stage = "current"]
                  /\ Goto("cal_capture")
    /\ UNCHANGED << wm, scn, netZoom, loc >>
    /\ Quiet

\* capture_screen(self.running) of lines 191, 216 and 241
CalCapture ==
    /\ pc = "cal_capture"
    /\ \E f \in Fails :
         LET out == capture_screen(Capture, running, f)
         IN  IF out.exc # "none" THEN RaiseInCalibrate(out.exc)
             ELSE /\ cal' = [cal EXCEPT !.image = out.ret]
                  /\ pc' = "cal_eval"
                  /\ obs' = [obs EXCEPT !.shot = out.ret]
                  /\ UNCHANGED << moved, cadm, results, exitCode >>
    /\ UNCHANGED << wm, scn, netZoom, loc >>
    /\ Quiet

ZoomLevel(idx) == ScanConfig.ZOOM_LEVELS_TO_TEST[idx][1]
ClicksPerLevel(idx) == ScanConfig.ZOOM_LEVELS_TO_TEST[idx][2]

better_or_equal(quality, best_quality) == quality >= best_quality

\* line 232: quality > best_quality
better(quality, best_quality) == quality > best_quality

\* evaluate_quality of lines 192, 217 and 242 and what follows it;
\* zoom_results holds (zoom_level, quality) of each level measured
CalEval ==
    /\ pc = "cal_eval"
    /\ \E quality \in Qualities :
         IF cal.stage = "current"
         THEN /\ cal' = [cal EXCEPT !.zoom_results = << << 0, quality >> >>,
                                    !.best_quality = quality,
                                    !.best_zoom_level = 0,
                                    !.idx = 1, !.image = None]
              /\ Goto("cal_head")
         ELSE IF cal.stage = "test"
         THEN /\ cal' = [cal EXCEPT
                           !.zoom_results = Append(@, << ZoomLevel(cal.idx), quality >>),
                           !.best_quality = IF better(quality, @) THEN quality ELSE @,
                           !.best_zoom_level = IF better(quality, cal.best_quality)
                                               THEN ZoomLevel(cal.idx) ELSE @,
                           !.idx = @ + 1, !.image = None]
              /\ Goto("cal_head")
         ELSE CalibrateReturns
    /\ UNCHANGED << wm, scn, netZoom, loc >>
    /\ Quiet

\* the head of the loop of line 205 and the safety check of line 206
CalHead ==
    /\ pc = "cal_head"
    /\ IF cal.idx > Len(ScanConfig.ZOOM_LEVELS_TO_TEST)
       THEN Goto("cal_reset") /\ UNCHANGED cal
       ELSE IF SafetyCheckPasses THEN Goto("cal_zoom") /\ UNCHANGED cal
       ELSE RaiseInCalibrate("SafetyExit")
    /\ UNCHANGED << wm, scn, netZoom, loc >>
    /\ Quiet

\* lines 212-214
CalZoom ==
    /\ pc = "cal_zoom"
    /\ \E f \in Fails :
         LET zoom_clicks == IF ZoomLevel(cal.idx) > 0 THEN ClicksPerLevel(cal.idx)
                            ELSE -ClicksPerLevel(cal.idx)
             out == zoom_control(running, f)
         IN  IF out.exc # "none" THEN RaiseInCalibrate(out.exc) /\ UNCHANGED netZoom
             ELSE IF ~out.ret
             THEN /\ cal' = [cal EXCEPT !.idx = @ + 1]
                  /\ Goto("cal_head")
                  /\ UNCHANGED netZoom
             ELSE /\ cal' = [cal EXCEPT !.stage = "test"]
                  /\ netZoom' = netZoom + zoom_clicks
                  /\ Goto("cal_capture")
    /\ UNCHANGED << wm, scn, loc >>
    /\ Quiet

RECURSIVE SumSeq(_)
SumSeq(seq) == IF seq = <<>> THEN 0 ELSE Head(seq) + SumSeq(Tail(seq))

Abs(x) == IF x < 0 THEN -x ELSE x

\* _reset_and_apply_optimal_zoom, lines 256-262
CalReset ==
    /\ pc = "cal_reset"
    /\ \E f \in Fails :
         LET tested == Tail(cal.zoom_results)
             total_applied_zoom == SumSeq([i \in 1..Len(tested) |-> Abs(tested[i][1]) * 2])
             reset_clicks == SumSeq([i \in 1..Len(tested) |-> -tested[i][1] * 2])
             out == zoom_control(running, f)
         IN  IF total_applied_zoom > 0 /\ reset_clicks # 0
             THEN IF out.exc # "none" THEN RaiseInCalibrate(out.exc) /\ UNCHANGED netZoom
                  ELSE /\ netZoom' = IF out.ret THEN netZoom + reset_clicks ELSE netZoom
                       /\ Goto("cal_apply")
                       /\ UNCHANGED cal
             ELSE Goto("cal_apply") /\ UNCHANGED << netZoom, cal >>
    /\ UNCHANGED << wm, scn, loc >>
    /\ Quiet

\* _reset_and_apply_optimal_zoom, lines 266-270
CalApply ==
    /\ pc = "cal_apply"
    /\ \E f \in Fails :
         LET out == zoom_control(running, f)
         IN  IF cal.best_zoom_level # 0
             THEN IF out.exc # "none"
                  THEN RaiseInCalibrate(out.exc) /\ UNCHANGED << netZoom, scn >>
                  ELSE /\ netZoom' = IF out.ret THEN netZoom + cal.best_zoom_level * 2
                                     ELSE netZoom
                       /\ scn' = [scn EXCEPT !.optimal_zoom_level = cal.best_zoom_level]
                       /\ cal' = [cal EXCEPT !.stage = "final"]
                       /\ Goto("cal_capture")
             ELSE /\ cal' = [cal EXCEPT !.stage = "final"]
                  /\ Goto("cal_capture")
                  /\ UNCHANGED << netZoom, scn >>
    /\ UNCHANGED << wm, loc >>
    /\ Quiet

(***************************************************************************)
(* capture_and_detect_movement                                             *)
(***************************************************************************)
\* line 158: the frame before the drag
CadmBefore ==
    /\ pc = "cadm_before"
    /\ \E f \in Fails :
         LET out == capture_screen(Capture, cadm.running_flag, f)
         IN  IF out.exc # "none" THEN Raise(out.exc, obs)
             ELSE /\ cadm' = [cadm EXCEPT !.before = out.ret]
                  /\ pc' = "cadm_drag"
                  /\ obs' = [obs EXCEPT !.shot = out.ret]
                  /\ UNCHANGED << moved, results, exitCode >>
    /\ UNCHANGED << wm, scn, cal, netZoom, loc >>
    /\ Quiet

\* lines 163-168: safe_drag(dx, dy, duration), running_flag left at its default
CadmDrag ==
    /\ pc = "cadm_drag"
    /\ \E f \in Fails :
         LET out == safe_drag(TRUE, f)
         IN  IF out.exc # "none" THEN Raise(out.exc, obs)
             ELSE IF ~out.ret
             THEN CadmReturn(FALSE, obs) /\ UNCHANGED << results, exitCode >>
             ELSE /\ pc' = "cadm_after"
                  /\ UNCHANGED << moved, cadm, results, exitCode, obs >>
    /\ UNCHANGED << wm, scn, cal, netZoom, loc >>
    /\ Quiet

\* lines 171-173: the frame after the drag; similarity is how alike the game
\* made the two frames
CadmAfter ==
    /\ pc = "cadm_after"
    /\ \E f \in Fails, similarity \in SimLevels :
         LET out == capture_screen(Capture, cadm.running_flag, f)
         IN  IF out.exc # "none" THEN Raise(out.exc, obs)
             ELSE /\ cadm' = [cadm EXCEPT !.after = out.ret, !.similarity = similarity]
                  /\ pc' = "cadm_detect"
                  /\ obs' = [obs EXCEPT !.shot = out.ret]
                  /\ UNCHANGED << moved, results, exitCode >>
    /\ UNCHANGED << wm, scn, cal, netZoom, loc >>
    /\ Quiet

\* line 176: return self.detect_movement(before_img, after_img)
CadmDetect ==
    /\ pc = "cadm_detect"
    /\ CadmReturn(detect_movement(cadm.before, cadm.after, cadm.similarity).moved, obs)
    /\ UNCHANGED << results, exitCode >>
    /\ UNCHANGED << wm, scn, cal, netZoom, loc >>
    /\ Quiet

\* The test double of the scripted harness: any outcome
CadmScripted ==
    /\ pc = "cadm_before"
    /\ harness = "script"
    /\ \E m \in BOOLEAN : CadmReturn(m, obs)
    /\ UNCHANGED << results, exitCode, wm, scn, cal, netZoom, loc >>
    /\ Quiet

(***************************************************************************)
(* find_top_left_corner                                                    *)
(***************************************************************************)
\* perform_scan or perform_test_mode returns value
ScanReturns(value) ==
    /\ results' = value
    /\ pc' = "exec_ret"
    /\ UNCHANGED << moved, cadm, exitCode, obs >>

ScanLocals == IF args.test_mode THEN loc.all_detections ELSE loc.targets_found

\* lines 295-300; a false return makes the caller return what it has
CornerMove ==
    /\ pc = "corner_move"
    /\ \E f \in Fails :
         LET out == safe_move_mouse(running, f)
         IN  IF out.exc # "none" THEN Raise(out.exc, obs) /\ UNCHANGED loc
             ELSE IF ~out.ret THEN ScanReturns(ScanLocals) /\ UNCHANGED loc
             ELSE /\ loc' = [loc EXCEPT !.attempt = 0]
                  /\ Goto("corner_head")
    /\ UNCHANGED << wm, scn, cal, netZoom >>
    /\ Quiet

\* find_top_left_corner returns True, by line 325 ("reached") or by line 328
\* ("exhausted"); its loop variable is gone, and so is the count of the
\* 450px drags this call made (obs.primary)
CornerReturnsTrue(how) ==
    /\ pc' = IF args.test_mode THEN "test_move" ELSE "scan_move"
    /\ loc' = [loc EXCEPT !.attempt = 0]
    /\ obs' = [obs EXCEPT !.corner = how, !.primary = 0]
    /\ UNCHANGED << moved, cadm, results, exitCode >>

range_exhausted_late(attempt) == attempt > CaptureConfig.MAX_CORNER_SEARCH_ATTEMPTS

\* line 305: for attempt in range(MAX_CORNER_SEARCH_ATTEMPTS) has no value left
range_exhausted(attempt) == attempt >= CaptureConfig.MAX_CORNER_SEARCH_ATTEMPTS

\* lines 305-315: loc.attempt is the loop variable
CornerHead ==
    /\ pc = "corner_head"
    /\ IF range_exhausted(loc.attempt)
       THEN CornerReturnsTrue("exhausted")
       ELSE IF SafetyCheckPasses
       THEN /\ cadm' = [site |-> "corner1", dx |-> 450, dy |-> 450,
                        running_flag |-> running, before |-> None,
                        after |-> None, similarity |-> None]
            /\ pc' = "cadm_before"
            /\ obs' = [obs EXCEPT !.swallowed = "none", !.primary = @ + 1]
            /\ UNCHANGED << moved, results, exitCode, loc >>
       ELSE Raise("SafetyExit", obs) /\ UNCHANGED loc
    /\ UNCHANGED << wm, scn, cal, netZoom >>
    /\ Quiet

CornerAfterUnconfirmed ==
    /\ pc = "corner_after1"
    /\ IF ~moved THEN CornerReturnsTrue("reached")
       ELSE /\ loc' = [loc EXCEPT !.attempt = @ + 1]
            /\ Goto("corner_head")
    /\ UNCHANGED << wm, scn, cal, netZoom >>
    /\ Quiet

\* lines 317-322
CornerAfter ==
    /\ pc = "corner_after1"
    /\ IF ~moved THEN CadmCall("corner2", 200, 200) /\ UNCHANGED loc
       ELSE /\ loc' = [loc EXCEPT !.attempt = @ + 1]
            /\ Goto("corner_head")
    /\ UNCHANGED << wm, scn, cal, netZoom >>
    /\ Quiet

\* lines 323-325
CornerConfirm ==
    /\ pc = "corner_after2"
    /\ IF ~moved THEN CornerReturnsTrue("reached")
       ELSE /\ loc' = [loc EXCEPT !.attempt = @ + 1]
            /\ Goto("corner_head")
    /\ UNCHANGED << wm, scn, cal, netZoom >>
    /\ Quiet

(***************************************************************************)
(* perform_scan and _scan_row                                              *)
(***************************************************************************)
\* lines 440-445
ScanMove ==
    /\ pc = "scan_move"
    /\ \E f \in Fails :
         LET out == safe_move_mouse(running, f)
         IN  IF out.exc # "none" THEN Raise(out.exc, obs) /\ UNCHANGED loc
             ELSE IF ~out.ret THEN ScanReturns(loc.targets_found) /\ UNCHANGED loc
             ELSE /\ loc' = [loc EXCEPT !.row = 0]
                  /\ Goto("scan_head")
    /\ UNCHANGED << wm, scn, cal, netZoom >>
    /\ Quiet

row_limit_uncapped(max_rows) == max_rows

\* line 449: range(min(max_rows, self.max_rows_total))
row_limit(max_rows) == Min(max_rows, scn.max_rows_total)

\* lines 449-454: the head of the row loop, the safety check, and the call
\* _scan_row(row, target_names, scan_count) with perform_scan's scan_count,
\* which is 0 (line 433) and is not assigned inside the loop
ScanHead ==
    /\ pc = "scan_head"
    /\ IF loc.row >= row_limit(args.max_rows)
       THEN Goto("scan_done") /\ UNCHANGED loc
       ELSE IF SafetyCheckPasses
       THEN /\ loc' = [loc EXCEPT !.col = 1, !.scan_count = 0, !.row_targets = <<>>]
            /\ Goto("row_check")
       ELSE Raise("SafetyExit", obs) /\ UNCHANGED loc
    /\ UNCHANGED << wm, scn, cal, netZoom >>
    /\ Quiet

\* lines 494-495
RowCheck ==
    /\ pc = "row_check"
    /\ IF SafetyCheckPasses
       THEN /\ loc' = [loc EXCEPT !.scan_count = @ + 1]
            /\ Goto("row_capture")
       ELSE Raise("SafetyExit", obs) /\ UNCHANGED loc
    /\ UNCHANGED << wm, scn, cal, netZoom >>
    /\ Quiet

\* line 501
RowCapture ==
    /\ pc = "row_capture"
    /\ \E f \in Fails :
         LET out == capture_screen(Capture, running, f)
         IN  IF out.exc # "none" THEN Raise(out.exc, obs) /\ UNCHANGED loc
             ELSE /\ loc' = [loc EXCEPT !.image = out.ret]
                  /\ pc' = "row_search"
                  /\ obs' = [obs EXCEPT !.shot = out.ret]
                  /\ UNCHANGED << moved, cadm, results, exitCode >>
    /\ UNCHANGED << wm, scn, cal, netZoom >>
    /\ Quiet

\* lines 506-508: the match as _scan_row records it, with its scan_position
\* and scan_count; of the fields search_for_targets set, the name, the match
\* type and the confidence are kept
recorded(target_info, row, col, scan_count) ==
    [ name |-> target_info.name,
      match_type |-> target_info.match_type,
      confidence |-> target_info.confidence,
      scan_position |-> << row + 1, col >>,
      scan_count |-> scan_count ]

RowSearchAll ==
    /\ pc = "row_search"
    /\ \E ocr \in TileOcr(loc.row, loc.col) : \E found \in { TileFound[ocr] } :
         loc' = [loc EXCEPT
                   !.image = None,
                   !.row_targets = @ \o
                       [ i \in 1..Len(found) |->
                           recorded(found[i], loc.row, loc.col, loc.scan_count) ]]
    /\ Goto("row_step")
    /\ UNCHANGED << wm, scn, cal, netZoom >>
    /\ Quiet

\* lines 502-509: search_for_targets on the tile, and the match recorded with
\* its scan_position and scan_count
RowSearch ==
    /\ pc = "row_search"
    /\ \E ocr \in TileOcr(loc.row, loc.col) : \E r \in { TileSearch[ocr] } :
         loc' = [loc EXCEPT
                   !.image = None,
                   !.row_targets =
                       IF r.found /\ r.info # None
                       THEN Append(@, recorded(r.info, loc.row, loc.col,
                                               loc.scan_count))
                       ELSE @]
    /\ Goto("row_step")
    /\ UNCHANGED << wm, scn, cal, netZoom >>
    /\ Quiet

going_right_always(row) == TRUE

going_right(row) == row % 2 = 0

\* lines 488-490 and 512-515
RowStep ==
    /\ pc = "row_step"
    /\ LET step_dx == IF going_right(loc.row) THEN scn.step_size ELSE -scn.step_size
       IN  CadmCall("row", -step_dx, 0)
    /\ UNCHANGED << wm, scn, cal, netZoom, loc >>
    /\ Quiet

RowReturnsNothing ==
    /\ loc' = loc
    /\ Goto("scan_next")

\* _scan_row returns targets_found, which perform_scan appends to its own
RowReturns ==
    /\ loc' = [loc EXCEPT !.targets_found = @ \o loc.row_targets]
    /\ Goto("scan_next")

over_column_limit_late(col) == col > scn.max_columns_per_row + 1

\* line 523: col > self.max_columns_per_row
over_column_limit(col) == col > scn.max_columns_per_row

\* lines 517-527
RowAfter ==
    /\ pc = "row_after"
    /\ IF ~moved THEN RowReturns
       ELSE IF over_column_limit(loc.col + 1) THEN RowReturns
       ELSE /\ loc' = [loc EXCEPT !.col = @ + 1]
            /\ Goto("row_check")
    /\ UNCHANGED << wm, scn, cal, netZoom >>
    /\ Quiet

\* lines 458-462
ScanNext ==
    /\ pc = "scan_next"
    /\ IF loc.row < args.max_rows - 1
       THEN CadmCall("vert", 0, -scn.vertical_step_size) /\ UNCHANGED loc
       ELSE /\ loc' = [loc EXCEPT !.row = @ + 1]
            /\ Goto("scan_head")
    /\ UNCHANGED << wm, scn, cal, netZoom >>
    /\ Quiet

\* lines 463-466
ScanAfterVertical ==
    /\ pc = "scan_aftervert"
    /\ IF ~moved THEN Goto("scan_done") /\ UNCHANGED loc
       ELSE /\ loc' = [loc EXCEPT !.row = @ + 1]
            /\ Goto("scan_head")
    /\ UNCHANGED << wm, scn, cal, netZoom >>
    /\ Quiet

\* lines 468-474
ScanDone ==
    /\ pc = "scan_done"
    /\ ScanReturns(loc.targets_found)
    /\ UNCHANGED << wm, scn, cal, netZoom, loc >>
    /\ Quiet

(***************************************************************************)
(* perform_test_mode                                                       *)
(***************************************************************************)
\* execute_scan calls perform_test_mode(10)
NumScreenshots == 10

\* lines 553-558
TestMove ==
    /\ pc = "test_move"
    /\ \E f \in Fails :
         LET out == safe_move_mouse(running, f)
         IN  IF out.exc # "none" THEN Raise(out.exc, obs) /\ UNCHANGED loc
             ELSE IF ~out.ret THEN ScanReturns(loc.all_detections) /\ UNCHANGED loc
             ELSE /\ loc' = [loc EXCEPT !.screenshot_num = 0]
                  /\ Goto("test_head")
    /\ UNCHANGED << wm, scn, cal, netZoom >>
    /\ Quiet

\* lines 562-563
TestHead ==
    /\ pc = "test_head"
    /\ IF loc.screenshot_num >= NumScreenshots THEN Goto("test_done")
       ELSE IF SafetyCheckPasses THEN Goto("test_capture")
       ELSE Raise("SafetyExit", obs)
    /\ UNCHANGED << wm, scn, cal, netZoom, loc >>
    /\ Quiet

\* line 568
TestCapture ==
    /\ pc = "test_capture"
    /\ \E f \in Fails :
         LET out == capture_screen(Capture, running, f)
         IN  IF out.exc # "none" THEN Raise(out.exc, obs) /\ UNCHANGED loc
             ELSE /\ loc' = [loc EXCEPT !.image = out.ret]
                  /\ pc' = "test_analyze"
                  /\ obs' = [obs EXCEPT !.shot = out.ret]
                  /\ UNCHANGED << moved, cadm, results, exitCode >>
    /\ UNCHANGED << wm, scn, cal, netZoom >>
    /\ Quiet

\* lines 582-585: the record of screenshot number screenshot_num + 1
TestAnalyze ==
    /\ pc = "test_analyze"
    /\ loc' = [loc EXCEPT !.image = None,
                          !.all_detections = Append(@, loc.screenshot_num + 1)]
    /\ Goto("test_step")
    /\ UNCHANGED << wm, scn, cal, netZoom >>
    /\ Quiet

\* lines 588-593
TestStep ==
    /\ pc = "test_step"
    /\ IF loc.screenshot_num < NumScreenshots - 1
       THEN CadmCall("test", -(scn.step_size \div 3), 0) /\ UNCHANGED loc
       ELSE /\ loc' = [loc EXCEPT !.screenshot_num = @ + 1]
            /\ Goto("test_head")
    /\ UNCHANGED << wm, scn, cal, netZoom >>
    /\ Quiet

TestAfterStopsAtBoundary ==
    /\ pc = "test_after"
    /\ IF moved
       THEN /\ loc' = [loc EXCEPT !.screenshot_num = @ + 1]
            /\ Goto("test_head")
       ELSE Goto("test_done") /\ UNCHANGED loc
    /\ UNCHANGED << wm, scn, cal, netZoom >>
    /\ Quiet

\* the result of the step is not looked at: next screenshot
TestAfter ==
    /\ pc = "test_after"
    /\ loc' = [loc EXCEPT !.screenshot_num = @ + 1]
    /\ Goto("test_head")
    /\ UNCHANGED << wm, scn, cal, netZoom >>
    /\ Quiet

\* lines 595-596
TestDone ==
    /\ pc = "test_done"
    /\ ScanReturns(loc.all_detections)
    /\ UNCHANGED << wm, scn, cal, netZoom, loc >>
    /\ Quiet

\* A signal that arrives while extract_text_comprehensive runs a strategy
\* pair in _analyze_test_screenshot is caught by the pair's own except
\* clause (ocr_engine.py:254): the analysis goes on.
SignalInTestOcr ==
    /\ harness = "program"
    /\ pc = "test_analyze"
    /\ running' = FALSE
    /\ obs' = [obs EXCEPT !.cancel = "SafetyExit"]
    /\ UNCHANGED << pc, harness, windowValid, args, wm, scn, cal, netZoom, loc, cadm,
                    moved, results, exitCode, call, outcome >>

(***************************************************************************)
(* Spec: the program                                                       *)
(***************************************************************************)
Init ==
    /\ pc = "exec_init"
    /\ harness = "program"
    /\ running = TRUE
    /\ windowValid = TRUE
    /\ args \in [max_rows : 1..MaxRowsArg, test_mode : BOOLEAN]
    /\ wm = NoWindow
    /\ scn = NewScanner
    /\ cal = NoCal
    /\ netZoom = 0
    /\ loc = NoLoc
    /\ cadm = NoCadm
    /\ moved = FALSE
    /\ results = <<>>
    /\ exitCode = -1
    /\ obs = NoObs
    /\ call = NoCall
    /\ outcome = NoCall

PerformScanStep ==
    \/ CornerMove \/ CornerHead \/ CornerAfter \/ CornerConfirm
    \/ ScanMove \/ ScanHead \/ RowCheck \/ RowCapture \/ RowSearch \/ RowStep
    \/ RowAfter \/ ScanNext \/ ScanAfterVertical \/ ScanDone

Next ==
    \/ Signal \/ SignalInTestOcr \/ WindowCloses
    \/ Initialize \/ ExecPhase \/ ExecReturn \/ MainReturn
    \/ CalMove \/ CalCapture \/ CalEval \/ CalHead \/ CalZoom \/ CalReset \/ CalApply
    \/ CadmBefore \/ CadmDrag \/ CadmAfter \/ CadmDetect
    \/ PerformScanStep
    \/ TestMove \/ TestHead \/ TestCapture \/ TestAnalyze \/ TestStep \/ TestAfter
    \/ TestDone

Spec == Init /\ [][Next]_vars

(***************************************************************************)
(* SpecScript: perform_scan with scripted movement outcomes                *)
(***************************************************************************)
InitScript ==
    /\ pc = "corner_move"
    /\ harness = "script"
    /\ running = TRUE
    /\ windowValid = TRUE
    /\ args \in [max_rows : (1..MaxRowsArg) \cup {LargeMaxRows}, test_mode : {FALSE}]
    /\ \E w \in Windows :
         /\ args.max_rows = LargeMaxRows => w = << 0, 0, 500, 300 >>
         /\ wm = AnalyzedWindow(w)
         /\ scn = InitializedScanner(AnalyzedWindow(w))
    /\ cal = NoCal
    /\ netZoom = 0
    /\ loc = NoLoc
    /\ cadm = NoCadm
    /\ moved = FALSE
    /\ results = <<>>
    /\ exitCode = -1
    /\ obs = NoObs
    /\ call = NoCall
    /\ outcome = NoCall

NextScript == CadmScripted \/ PerformScanStep

SpecScript == InitScript /\ [][NextScript]_vars

\* perform_scan is one thread of control: as long as it has not returned, its
\* next statement is executed
SpecScriptFair == InitScript /\ [][NextScript]_vars /\ WF_vars(NextScript)

(***************************************************************************)
(* SpecScriptLoss: the scripted perform_scan, and the game window may close *)
(***************************************************************************)
\* win32gui.IsWindow(hwnd) becomes false at any point of the scan
WindowClosesInScan ==
    /\ harness = "script"
    /\ args.max_rows <= MaxRowsArg
    /\ pc # "exec_ret"
    /\ windowValid
    /\ windowValid' = FALSE
    /\ UNCHANGED << pc, harness, running, args, wm, scn, cal, netZoom, loc, cadm,
                    moved, results, exitCode, obs, call, outcome >>

NextScriptLoss == WindowClosesInScan \/ NextScript

SpecScriptLoss == InitScript /\ [][NextScriptLoss]_vars

(***************************************************************************)
(* SpecSession: calibrate_zoom run more than once on one MapScanner        *)
(***************************************************************************)
\* Runs of calibrate_zoom in one session
MaxCalibrations == 2

\* The session starts with the scanner initialized on some window and
\* calibrate_zoom called for the first time
InitSession ==
    /\ pc = "cal_move"
    /\ harness = "session"
    /\ running = TRUE
    /\ windowValid = TRUE
    /\ args = [max_rows |-> 1, test_mode |-> FALSE]
    /\ \E w \in Windows :
         /\ wm = AnalyzedWindow(w)
         /\ scn = InitializedScanner(AnalyzedWindow(w))
    /\ cal = NoCal
    /\ netZoom = 0
    /\ loc = NoLoc
    /\ cadm = NoCadm
    /\ moved = FALSE
    /\ results = <<>>
    /\ exitCode = -1
    /\ obs = NoObs
    /\ call = [fn |-> "calibrate_zoom", n |-> 1]
    /\ outcome = NoCall

\* calibrate_zoom has returned and is called again on the same object
CalibrateAgain ==
    /\ harness = "session"
    /\ pc = "exec_phase"
    /\ call.n < MaxCalibrations
    /\ pc' = "cal_move"
    /\ call' = [call EXCEPT !.n = @ + 1]
    /\ UNCHANGED << harness, running, windowValid, args, wm, scn, cal, netZoom,
                    loc, cadm, moved, results, exitCode, obs, outcome >>

NextSession ==
    \/ CalMove \/ CalCapture \/ CalEval \/ CalHead \/ CalZoom \/ CalReset \/ CalApply
    \/ CalibrateAgain

SpecSession == InitSession /\ [][NextSession]_vars

(***************************************************************************)
(* ocr_engine.py: extract_text_comprehensive                               *)
(***************************************************************************)
\* ' '.join(texts)
RECURSIVE join(_)
join(texts) ==
    IF texts = <<>> THEN <<>>
    ELSE IF Len(texts) = 1 THEN texts[1]
    ELSE texts[1] \o << " " >> \o join(Tail(texts))

\* _process_ocr_data, lines 282-302.  kept: the detections that are kept and
\* appended to results['all_detections'], each with its stripped text and its
\* confidence, in the order of the OCR output; raised: int(ocr_data['conf'][i])
\* of line 284 raised at an entry, which ends the loop there (conf_ok is false
\* for an entry whose confidence int() does not take).
RECURSIVE process_ocr_data(_)
process_ocr_data(ocr_data) ==
    IF ocr_data = <<>> THEN [kept |-> <<>>, raised |-> FALSE]
    ELSE IF ~Head(ocr_data).conf_ok THEN [kept |-> <<>>, raised |-> TRUE]
    ELSE LET text == strip(Head(ocr_data).text)
             confidence == Head(ocr_data).conf
             rest == process_ocr_data(Tail(ocr_data))
         IN  [ kept |-> (IF /\ Len(text) >= OCRConfig.MIN_TEXT_LENGTH
                            /\ confidence > OCRConfig.MIN_CONFIDENCE_THRESHOLD
                         THEN << [text |-> text, confidence |-> confidence] >>
                         ELSE <<>>) \o rest.kept,
               raised |-> rest.raised ]

\* np.mean of a non-empty list of integers, kept as the fraction (sum, count);
\* the number 0 is (0, 1)
mean(values) == << SumSeq(values), Len(values) >>

greater_or_equal(a, b) == a[1] * b[2] >= b[1] * a[2]

\* line 245: avg_confidence > results['best_confidence']
greater(a, b) == a[1] * b[2] > b[1] * a[2]

\* lines 208-214
NewOcrResults ==
    [ texts |-> <<>>, confidences |-> <<>>, best_text |-> <<>>,
      best_confidence |-> << 0, 1 >>, all_detections |-> <<>> ]

\* lines 218-259 for one (strategy, configuration) pair.  pair.raises: the
\* preprocessing or pytesseract.image_to_data raises, and the except clause of
\* line 254 goes on to the next pair; pair.ocr_data: what image_to_data gave.
\* When _process_ocr_data raises, the entries it appended to
\* results['all_detections'] before stay there, and the pair adds no text.
run_pair(ocr_results, pair) ==
    IF pair.raises THEN ocr_results
    ELSE IF process_ocr_data(pair.ocr_data).raised
    THEN [ocr_results EXCEPT !.all_detections = @ \o process_ocr_data(pair.ocr_data).kept]
    ELSE LET kept == process_ocr_data(pair.ocr_data).kept
             strategy_texts == [ i \in 1..Len(kept) |-> kept[i].text ]
             strategy_confidences == [ i \in 1..Len(kept) |-> kept[i].confidence ]
             combined_text == join(strategy_texts)
             avg_confidence == mean(strategy_confidences)
             is_best == greater(avg_confidence, ocr_results.best_confidence)
         IN  IF strategy_texts = <<>>
             THEN [ocr_results EXCEPT !.all_detections = @ \o kept]
             ELSE [ocr_results EXCEPT
                     !.all_detections = @ \o kept,
                     !.texts = Append(@, combined_text),
                     !.confidences = Append(@, avg_confidence),
                     !.best_confidence = IF is_best THEN avg_confidence ELSE @,
                     !.best_text = IF is_best THEN combined_text ELSE @]

RECURSIVE run_pairs_until_error(_, _)
run_pairs_until_error(ocr_results, pairs) ==
    IF pairs = <<>> \/ Head(pairs).raises THEN ocr_results
    ELSE run_pairs_until_error(run_pair(ocr_results, Head(pairs)), Tail(pairs))

\* line 217: the loop over the pairs
RECURSIVE run_pairs(_, _)
run_pairs(ocr_results, pairs) ==
    IF pairs = <<>> THEN ocr_results
    ELSE run_pairs(run_pair(ocr_results, Head(pairs)), Tail(pairs))

\* extract_text_comprehensive(image), lines 206-269; pairs is what the
\* (strategy, configuration) pairs do on the image, in the order of
\* OCRConfig.OCR_STRATEGIES
extract_text_comprehensive(pairs) ==
    LET ocr_results == run_pairs(NewOcrResults, pairs)
    IN  [ocr_results EXCEPT !.best_text = IF @ # <<>> THEN join(split(@)) ELSE @]

(***************************************************************************)
(* SpecUnit: single calls of the leaf functions, one call per behaviour    *)
(***************************************************************************)
\* A captured frame, as far as detect_movement looks at it
Frame == << 0, 0, 600, 500 >>

\* Effective areas (x, y, width, height), capture sizes and centre points
UnitAreas == { <<30, 24, 410, 240>>, <<90, 72, 1230, 720>>, <<0, 0, 600, 500>> }
UnitSizes == { <<400, 200>>, <<410, 240>>, <<600, 500>>, <<1045, 576>> }
UnitCenters == { <<-100, -100>>, <<235, 144>>, <<705, 432>>, <<3000, 50>>,
                 <<50, 3000>>, <<300, 250>> }

InitUnit ==
    /\ pc = "unit"
    /\ harness = "unit"
    /\ running = TRUE
    /\ windowValid = TRUE
    /\ args = [max_rows |-> 1, test_mode |-> FALSE]
    /\ wm = NoWindow
    /\ scn = NewScanner
    /\ cal = NoCal
    /\ netZoom = 0
    /\ loc = NoLoc
    /\ cadm = NoCadm
    /\ moved = FALSE
    /\ results = <<>>
    /\ exitCode = -1
    /\ obs = NoObs
    /\ call = NoCall
    /\ outcome = NoCall

UnitDetectMovement ==
    /\ pc = "unit"
    /\ call = NoCall
    /\ \E before_image \in {None, Frame}, after_image \in {None, Frame},
          similarity \in SimLevels :
         /\ call' = [fn |-> "detect_movement", before_image |-> before_image,
                     after_image |-> after_image, similarity |-> similarity]
         /\ outcome' = detect_movement(before_image, after_image, similarity)
    /\ UNCHANGED progVars

UnitSafeMoveMouse ==
    /\ pc = "unit"
    /\ call = NoCall
    /\ \E running_flag \in BOOLEAN, device_fails \in BOOLEAN :
         /\ call' = [fn |-> "safe_move_mouse", running_flag |-> running_flag,
                     device_fails |-> device_fails]
         /\ outcome' = safe_move_mouse(running_flag, device_fails)
    /\ UNCHANGED progVars

UnitSafeDrag ==
    /\ pc = "unit"
    /\ call = NoCall
    /\ \E running_flag \in BOOLEAN, device_fails \in BOOLEAN :
         /\ call' = [fn |-> "safe_drag", running_flag |-> running_flag,
                     device_fails |-> device_fails]
         /\ outcome' = safe_drag(running_flag, device_fails)
    /\ UNCHANGED progVars

UnitZoomControl ==
    /\ pc = "unit"
    /\ call = NoCall
    /\ \E running_flag \in BOOLEAN, device_fails \in BOOLEAN :
         /\ call' = [fn |-> "zoom_control", running_flag |-> running_flag,
                     device_fails |-> device_fails]
         /\ outcome' = zoom_control(running_flag, device_fails)
    /\ UNCHANGED progVars

UnitCaptureScreen ==
    /\ pc = "unit"
    /\ call = NoCall
    /\ \E running_flag \in BOOLEAN, device_fails \in BOOLEAN, w \in Windows :
         /\ call' = [fn |-> "capture_screen", running_flag |-> running_flag,
                     device_fails |-> device_fails, window |-> w]
         /\ outcome' = capture_screen(
                [center_x |-> AnalyzedWindow(w).center_x,
                 center_y |-> AnalyzedWindow(w).center_y,
                 capture_size |-> InitializedScanner(AnalyzedWindow(w)).capture_size,
                 effective_game_area |-> AnalyzedWindow(w).effective_game_area],
                running_flag, device_fails)
    /\ UNCHANGED progVars

UnitCalculateCaptureCoordinates ==
    /\ pc = "unit"
    /\ call = NoCall
    /\ \E area \in UnitAreas \cup {None}, size \in UnitSizes, center \in UnitCenters :
         /\ call' = [fn |-> "_calculate_capture_coordinates", area |-> area,
                     size |-> size, center |-> center]
         /\ outcome' = calculate_capture_coordinates(center[1], center[2], size, area)
    /\ UNCHANGED progVars

\* Strings for extract_player_name_from_alliance_tag: every string of at most
\* MaxTagLen characters of TagAlphabet, and "[ABC]PlayerX", "PlayerX",
\* "(A)[B]PlayerX"
MaxTagLen == 3
TagAlphabet == { "[", "]", "(", ")", "|", " ", "x" }
TagExamples ==
    { << "[", "A", "B", "C", "]", "P", "l", "a", "y", "e", "r", "X" >>,
      << "P", "l", "a", "y", "e", "r", "X" >>,
      << "(", "A", ")", "[", "B", "]", "P", "l", "a", "y", "e", "r", "X" >> }
TagStrings == TagExamples \cup UNION { [1..n -> TagAlphabet] : n \in 0..MaxTagLen }

UnitExtractPlayerName ==
    /\ pc = "unit"
    /\ call = NoCall
    /\ \E text \in TagStrings :
         /\ call' = [fn |-> "extract_player_name_from_alliance_tag", text |-> text]
         /\ outcome' = extract_player_name_from_alliance_tag(text)
    /\ UNCHANGED progVars

\* OCR results and target lists for search_for_targets:
\*   "[ally]johndoe says hi" with ["JohnDoe"];  "[x]bob al" with ["Bob", "Al"];
\*   "[x]bob" with ["(y)Bob"];  "sea" with ["Bob", "Al"];  "" with ["Bob"]
SearchCases ==
    { [best_text |-> << "[", "a", "l", "l", "y", "]", "j", "o", "h", "n", "d", "o", "e",
                        " ", "s", "a", "y", "s", " ", "h", "i" >>,
       best_confidence |-> 80,
       target_names |-> << << "J", "o", "h", "n", "D", "o", "e" >> >>],
      [best_text |-> << "[", "x", "]", "b", "o", "b", " ", "a", "l" >>,
       best_confidence |-> 80,
       target_names |-> TargetNames],
      [best_text |-> << "[", "x", "]", "b", "o", "b" >>,
       best_confidence |-> 70,
       target_names |-> << << "(", "y", ")", "B", "o", "b" >> >>],
      [best_text |-> << "s", "e", "a" >>,
       best_confidence |-> 60,
       target_names |-> TargetNames],
      [best_text |-> <<>>,
       best_confidence |-> 0,
       target_names |-> << << "B", "o", "b" >> >>] }

UnitSearchForTargets ==
    /\ pc = "unit"
    /\ call = NoCall
    /\ \E c \in SearchCases :
         /\ call' = [fn |-> "search_for_targets", best_text |-> c.best_text,
                     best_confidence |-> c.best_confidence,
                     target_names |-> c.target_names]
         /\ outcome' = search_for_targets(c.best_text, c.best_confidence, c.target_names)
    /\ UNCHANGED progVars

\* The (strategy, configuration) pairs of a call: the first MaxPairs entries of
\* OCRConfig.OCR_STRATEGIES.  A pair raises, or image_to_data gives one of:
\*   nothing;  "ab" 30, "cd" 90;  " xy " 60;  "cd" 90;  "z" 99, "qq" 20;
\*   "ab" 30, " " 95;  "ef" with a confidence int() rejects, "cd" 90;
\*   "gh" 70, "ij" with a confidence int() rejects
MaxPairs == 3
PairOutcomes ==
    { [raises |-> TRUE, ocr_data |-> <<>>],
      [raises |-> FALSE, ocr_data |-> <<>>],
      [raises |-> FALSE, ocr_data |-> << [text |-> << "a", "b" >>, conf |-> 30, conf_ok |-> TRUE],
                                         [text |-> << "c", "d" >>, conf |-> 90, conf_ok |-> TRUE] >>],
      [raises |-> FALSE, ocr_data |-> << [text |-> << " ", "x", "y", " " >>, conf |-> 60, conf_ok |-> TRUE] >>],
      [raises |-> FALSE, ocr_data |-> << [text |-> << "c", "d" >>, conf |-> 90, conf_ok |-> TRUE] >>],
      [raises |-> FALSE, ocr_data |-> << [text |-> << "z" >>, conf |-> 99, conf_ok |-> TRUE],
                                         [text |-> << "q", "q" >>, conf |-> 20, conf_ok |-> TRUE] >>],
      [raises |-> FALSE, ocr_data |-> << [text |-> << "a", "b" >>, conf |-> 30, conf_ok |-> TRUE],
                                         [text |-> << " " >>, conf |-> 95, conf_ok |-> TRUE] >>],
      [raises |-> FALSE, ocr_data |-> << [text |-> << "e", "f" >>, conf |-> 0, conf_ok |-> FALSE],
                                         [text |-> << "c", "d" >>, conf |-> 90, conf_ok |-> TRUE] >>],
      [raises |-> FALSE, ocr_data |-> << [text |-> << "g", "h" >>, conf |-> 70, conf_ok |-> TRUE],
                                         [text |-> << "i", "j" >>, conf |-> 0, conf_ok |-> FALSE] >>] }

UnitExtractText ==
    /\ pc = "unit"
    /\ call = NoCall
    /\ \E pairs \in [1..MaxPairs -> PairOutcomes] :
         /\ call' = [fn |-> "extract_text_comprehensive", pairs |-> pairs]
         /\ outcome' = extract_text_comprehensive(pairs)
    /\ UNCHANGED progVars

\* Average confidences, average heights, detection counts and readable-word
\* counts for calculate_quality_score
ScoreConfidences == { 0, 20, 21, 50, 99, 100, 101, 150 }
ScoreHeights == { 5, 8, 10, 12, 20, 25, 30, 35, 40 }
ScoreCounts == { 0, 1, 6, 7, 10 }
MaxReadable == 6

UnitCalculateQualityScore ==
    /\ pc = "unit"
    /\ call = NoCall
    /\ \E confidence \in ScoreConfidences, height \in ScoreHeights,
          text_count \in ScoreCounts, readable_words \in 0..MaxReadable :
         /\ call' = [fn |-> "calculate_quality_score", confidence |-> confidence,
                     height |-> height, text_count |-> text_count,
                     readable_words |-> readable_words]
         /\ outcome' = calculate_quality_score(confidence, height, text_count,
                                               readable_words, ScanConfig.QUALITY_WEIGHTS)
    /\ UNCHANGED progVars

UnitCalculateOverlapStep ==
    /\ pc = "unit"
    /\ call = NoCall
    /\ \E capture_size \in OverlapSizes, overlap_percent \in OverlapPercents :
         /\ call' = [fn |-> "calculate_overlap_step", capture_size |-> capture_size,
                     overlap_percent |-> overlap_percent]
         /\ outcome' = calculate_overlap_step(capture_size, overlap_percent)
    /\ UNCHANGED progVars

\* The MouseController initialize() builds on client rectangle w
MouseControllerOf(w) ==
    [ center_x |-> AnalyzedWindow(w).center_x,
      center_y |-> AnalyzedWindow(w).center_y,
      effective_game_area |-> AnalyzedWindow(w).effective_game_area,
      client_rect |-> w ]

\* Displacements asked of safe_drag, jitter factors in percent
\* (POSITION_VARIANCE_RANGE is 0.98 to 1.02), where the cursor is when
\* safe_drag is called, relative to the centre, and targets of safe_move_mouse
DragDisplacements == { -3000, -652, -137, 0, 200, 450, 3000 }
Jitters == { 98, 100, 102 }
CursorOffsets == { <<0, 0>>, <<10, -10>>, <<-10, 10>>, <<11, 0>>, <<-4000, -4000>> }
MoveTargets == { <<-50, -50>>, <<235, 144>>, <<940, 576>>, <<5000, 5000>> }

UnitSafeDragMoves ==
    /\ pc = "unit"
    /\ call = NoCall
    /\ \E w \in Windows, off \in CursorOffsets, dx \in DragDisplacements,
          dy \in DragDisplacements, jitter_x \in Jitters, jitter_y \in Jitters :
         LET mc == MouseControllerOf(w)
             cursor == << mc.center_x + off[1], mc.center_y + off[2] >>
         IN  /\ call' = [fn |-> "safe_drag_moves", n |-> 1, mc |-> mc,
                         cursor |-> cursor, dx |-> dx, dy |-> dy,
                         jitter_x |-> jitter_x, jitter_y |-> jitter_y]
             /\ outcome' = safe_drag_moves(mc, cursor, dx, dy, jitter_x, jitter_y)
    /\ UNCHANGED progVars

\* Drags made one after the other on the same MouseController
MaxDrags == 3

\* The next safe_drag of a sequence: the cursor is where the drag before left
\* it, or off[1], off[2] away from there (the user's hand on the mouse)
UnitSafeDragAgain ==
    /\ pc = "unit"
    /\ call.fn = "safe_drag_moves"
    /\ call.n < MaxDrags
    /\ \E off \in CursorOffsets, dx \in {-652, 450}, dy \in {-137, 450} :
         LET mc == call.mc
             left == outcome.cursor[Len(outcome.cursor)]
             cursor == << left[1] + off[1], left[2] + off[2] >>
         IN  /\ call' = [fn |-> "safe_drag_moves", n |-> call.n + 1, mc |-> mc,
                         cursor |-> cursor, dx |-> dx, dy |-> dy,
                         jitter_x |-> 100, jitter_y |-> 100]
             /\ outcome' = safe_drag_moves(mc, cursor, dx, dy, 100, 100)
    /\ UNCHANGED progVars

\* safe_mouse_move(x, y), line 97: where pyautogui.moveTo puts the cursor
UnitCalculateSafeCoordinates ==
    /\ pc = "unit"
    /\ call = NoCall
    /\ \E w \in Windows, xy \in MoveTargets :
         /\ call' = [fn |-> "_calculate_safe_coordinates", mc |-> MouseControllerOf(w),
                     x |-> xy[1], y |-> xy[2], margin |-> 50]
         /\ outcome' = calculate_safe_coordinates(MouseControllerOf(w), xy[1], xy[2], 50)
    /\ UNCHANGED progVars

NextUnit ==
    \/ UnitSafeDragMoves \/ UnitSafeDragAgain \/ UnitCalculateSafeCoordinates
    \/ UnitExtractText \/ UnitCalculateQualityScore \/ UnitCalculateOverlapStep
    \/ UnitDetectMovement \/ UnitSafeMoveMouse \/ UnitSafeDrag \/ UnitZoomControl
    \/ UnitCaptureScreen \/ UnitCalculateCaptureCoordinates
    \/ UnitExtractPlayerName \/ UnitSearchForTargets

SpecUnit == InitUnit /\ [][NextUnit]_vars

(***************************************************************************)
(* Properties                                                              *)
(***************************************************************************)
\* C1 (SpecUnit): detect_movement on two present frames of similarity s
\* reports moved = TRUE exactly when s is below 98.0%.
C1_MovedIffBelowThreshold ==
    ( /\ call.fn = "detect_movement"
      /\ call.before_image # None
      /\ call.after_image # None )
    => outcome.moved = (call.similarity < ScanConfig.SIMILARITY_THRESHOLD)

\* C2 (Spec): a SafetyExit that arises inside capture_and_detect_movement is
\* never turned into a (False, reason) return.
C2_SafetyExitLeavesCadm == obs.swallowed # "SafetyExit"

\* C3 (Spec): once a cancellation was raised during execute_scan, main
\* returns exit code 0.
C3_CancellationExitsZero ==
    (pc = "exit" /\ obs.cancel = "SafetyExit") => exitCode = 0

\* C4 (SpecUnit): safe_move_mouse, safe_drag, zoom_control and capture_screen
\* called with the running flag false end with SafetyExit and issue no
\* pyautogui call.
C4_StoppedPrimitiveRaises ==
    ( /\ call.fn \in {"safe_move_mouse", "safe_drag", "zoom_control", "capture_screen"}
      /\ ~call.running_flag )
    => (outcome.exc = "SafetyExit" /\ outcome.op = "none")

C4_Witness ==
    /\ call.fn = "safe_move_mouse"
    /\ ~call.running_flag
    /\ call.device_fails
    /\ outcome.exc = "SafetyExit"

\* C5 (Spec): every rectangle capture_screen grabs lies inside the effective
\* game area of the window initialize() accepted.
C5_CaptureInsideEffectiveArea ==
    obs.shot # None =>
        /\ wm.effective_game_area[1] <= obs.shot[1]
        /\ wm.effective_game_area[2] <= obs.shot[2]
        /\ obs.shot[1] + obs.shot[3]
               <= wm.effective_game_area[1] + wm.effective_game_area[3]
        /\ obs.shot[2] + obs.shot[4]
               <= wm.effective_game_area[2] + wm.effective_game_area[4]

\* C6 (SpecUnit): when the capture size fits into the effective area, the
\* origin _calculate_capture_coordinates computes lies between the area's
\* origin and the area's far edge minus the capture size, on both axes.
C6_OriginWithinArea ==
    ( /\ call.fn = "_calculate_capture_coordinates"
      /\ call.area # None
      /\ call.size[1] <= call.area[3]
      /\ call.size[2] <= call.area[4] )
    => /\ call.area[1] <= outcome[1]
       /\ outcome[1] <= call.area[1] + call.area[3] - call.size[1]
       /\ call.area[2] <= outcome[2]
       /\ outcome[2] <= call.area[2] + call.area[4] - call.size[2]

C6_Witness ==
    /\ call.fn = "_calculate_capture_coordinates"
    /\ call.area # None
    /\ call.size[1] < call.area[3]
    /\ call.size[2] < call.area[4]
    /\ call.center[1] - call.size[1] \div 2 < call.area[1]
    /\ call.center[2] - call.size[2] \div 2 > call.area[2] + call.area[4] - call.size[2]
    /\ outcome = << call.area[1], call.area[2] + call.area[4] - call.size[2] >>

\* C7 (SpecScript): find_top_left_corner returns "corner reached" only
\* directly after a 450px drag without movement followed by a 200px drag
\* without movement; a drag with movement, primary or confirming, sends the
\* search back to the head of its loop.
C7_CornerStopsOnlyAfterConfirmedPair ==
    [][ /\ (obs'.corner = "reached" /\ obs.corner # "reached")
           => /\ pc = "corner_after2"
              /\ obs.hist = << [site |-> "corner1", dx |-> 450, dy |-> 450,
                                moved |-> FALSE],
                               [site |-> "corner2", dx |-> 200, dy |-> 200,
                                moved |-> FALSE] >>
        /\ (pc \in {"corner_after1", "corner_after2"} /\ moved)
           => /\ pc' = "corner_head"
              /\ loc'.attempt = loc.attempt + 1
              /\ obs'.corner = "none"
      ]_vars

C7_Witness ==
    /\ pc = "scan_move"
    /\ obs.corner = "reached"
    /\ Len(obs.hist) = 2
    /\ obs.hist[1].site = "corner1" /\ ~obs.hist[1].moved
    /\ obs.hist[2].site = "corner2" /\ ~obs.hist[2].moved

\* C8 (SpecScript): one call of find_top_left_corner makes at most 200 450px
\* drags, and when the 200 are used up it returns True: perform_scan goes on
\* to the rows and returns nothing yet.
C8_CornerSearchBounded ==
    /\ [](obs.primary <= CaptureConfig.MAX_CORNER_SEARCH_ATTEMPTS)
    /\ [][ ( /\ pc = "corner_head"
             /\ obs.primary = CaptureConfig.MAX_CORNER_SEARCH_ATTEMPTS )
           => /\ pc' = "scan_move"
              /\ obs'.corner = "exhausted"
              /\ results' = results
         ]_vars

C8_Witness ==
    /\ obs.corner = "exhausted"
    /\ pc = "row_capture"
    /\ loc.row = 0

\* C9 (SpecScript): in a row whose drag after column 5 reports no movement
\* (the drags before it did, or column 5 is not reached), column 5 is the
\* fifth and last tile captured, and _scan_row returns normally with every
\* match of the row, which perform_scan appends to its matches.
C9_RowStopsAtBoundary ==
    /\ [](pc = "row_after" => loc.scan_count = loc.col)
    /\ [][ (pc = "row_after" /\ loc.col = 5 /\ ~moved)
           => /\ pc' = "scan_next"
              /\ loc'.col = 5
              /\ loc'.scan_count = 5
              /\ loc'.targets_found = loc.targets_found \o loc.row_targets
              /\ results' = results
              /\ obs'.swallowed = "none"
         ]_vars

C9_Witness ==
    /\ pc = "scan_next"
    /\ loc.row = 0
    /\ loc.col = 5
    /\ ~moved
    /\ Len(loc.row_targets) = 2
    /\ loc.targets_found = loc.row_targets

\* C10 (SpecScript): every horizontal drag of a row with even index has
\* dx = -step_size and every one of a row with odd index has dx = +step_size,
\* with dy = 0: the direction is the same inside a row and alternates from
\* one row to the next.
C10_RowDirection ==
    cadm.site = "row" =>
        /\ cadm.dy = 0
        /\ cadm.dx = IF loc.row % 2 = 0 THEN -scn.step_size ELSE scn.step_size

C10_Witness ==
    /\ cadm.site = "row"
    /\ loc.row = 1
    /\ loc.col = 2
    /\ cadm.dx = scn.step_size

\* C11 (SpecScript): max_columns_per_row is 150, 100 or 75 by the width of
\* the effective area; the tile a row captures is never beyond that column,
\* and a row whose column count reaches the cap while its drags still move
\* returns normally with its matches.
C11_ColumnsCapped ==
    /\ [](scn.max_columns_per_row =
              IF wm.effective_game_area[3] >= 1600 THEN 150
              ELSE IF wm.effective_game_area[3] >= 1200 THEN 100 ELSE 75)
    /\ [](pc = "row_capture" => loc.col <= scn.max_columns_per_row)
    /\ [][ (pc = "row_after" /\ moved /\ loc.col = scn.max_columns_per_row)
           => /\ pc' = "scan_next"
              /\ loc'.targets_found = loc.targets_found \o loc.row_targets
              /\ results' = results
              /\ obs'.swallowed = "none"
         ]_vars

C11_Witness ==
    /\ pc = "scan_next"
    /\ moved
    /\ loc.col = 150
    /\ scn.max_columns_per_row = 150

\* C12 (SpecScript): the index of a row being scanned is below
\* min(max_rows, 50), so at most min(max_rows, 50) rows are scanned.
C12_RowsCapped ==
    pc \in {"row_check", "row_capture", "row_search", "row_step", "row_after"}
    => loc.row + 1 <= Min(args.max_rows, CaptureConfig.MAX_ROWS_TOTAL)

C12_Witness ==
    /\ pc = "row_capture"
    /\ args.max_rows > CaptureConfig.MAX_ROWS_TOTAL
    /\ loc.row + 1 = CaptureConfig.MAX_ROWS_TOTAL

\* C13 (SpecScript): a vertical step without movement ends the scan, which
\* returns the matches of the rows scanned; a vertical step with movement is
\* followed by the scan of the next row.
C13_VerticalStepDecides ==
    [][ /\ (pc = "scan_aftervert" /\ ~moved)
           => (pc' = "scan_done" /\ loc' = loc)
        /\ pc = "scan_done"
           => (pc' = "exec_ret" /\ results' = loc.targets_found)
        /\ (pc = "scan_aftervert" /\ moved)
           => (pc' = "scan_head" /\ loc'.row = loc.row + 1)
        /\ ( /\ pc = "scan_head"
             /\ Len(obs.hist) > 0
             /\ obs.hist[Len(obs.hist)].site = "vert"
             /\ obs.hist[Len(obs.hist)].moved )
           => pc' = "row_check"
      ]_vars

\* C14 (SpecScript): the scan_count values recorded in the matches of one
\* perform_scan run are strictly increasing in result order.
C14_ScanCountIncreases ==
    \A i, j \in 1..Len(loc.targets_found) :
        i < j => loc.targets_found[i].scan_count < loc.targets_found[j].scan_count

\* C15 (SpecScript): one tile adds at most one match to the row, and that
\* match is one of the targets found in the tile's text with no found target
\* of higher confidence; a row never holds more matches than it has tiles,
\* and the result grows only by the matches of a finished row.
C15_OneMatchPerTile ==
    /\ [](pc \in {"row_check", "row_capture", "row_search", "row_step", "row_after"}
          => Len(loc.row_targets) <= loc.col)
    /\ [][ /\ Len(loc'.row_targets)
                <= Len(loc.row_targets) + (IF pc = "row_search" THEN 1 ELSE 0)
           /\ Len(loc'.targets_found) <= Len(loc.targets_found) + Len(loc.row_targets)
           /\ (pc = "row_search" /\ Len(loc'.row_targets) = Len(loc.row_targets) + 1)
              => \E ocr \in TileOcr(loc.row, loc.col) :
                   LET found == TileFound[ocr]
                       new == loc'.row_targets[Len(loc'.row_targets)]
                   IN  /\ \E k \in 1..Len(found) : found[k].name = new.name
                       /\ \A k \in 1..Len(found) : found[k].confidence <= new.confidence
         ]_vars

C15_Witness ==
    /\ pc = "row_step"
    /\ loc.col = 1
    /\ Len(loc.row_targets) = 1
    /\ \E ocr \in TileOcr(loc.row, loc.col) :
         /\ Len(TileFound[ocr]) = 2
         /\ TileFound[ocr][1].name = loc.row_targets[1].name

\* C16 (SpecUnit): for one target name, when a word of the OCR text is an
\* alliance tag followed by the target name (case ignored), search_for_targets
\* finds a match of type exact_word whose matched word is the name without
\* the tag.
C16_TaggedWordIsExactWord ==
    ( /\ call.fn = "search_for_targets"
      /\ Len(call.target_names) = 1
      /\ \E i \in 1..Len(split(lower(call.best_text))) :
           LET word == split(lower(call.best_text))[i]
           IN  /\ extract_player_name_from_alliance_tag(word) # word
               /\ extract_player_name_from_alliance_tag(word)
                      = lower(call.target_names[1]) )
    => /\ outcome.found
       /\ outcome.info.match_type = "exact_word"
       /\ outcome.info.matched_word = lower(call.target_names[1])

\* C17 (SpecUnit): extract_player_name_from_alliance_tag is idempotent.
C17_StripIdempotent ==
    call.fn = "extract_player_name_from_alliance_tag"
    => extract_player_name_from_alliance_tag(outcome) = outcome

\* C18 (Spec): while the quality of tested zoom level d is measured, the net
\* number of scroll clicks since the start of the calibration is d x 2.
C18_MeasuredAtLevel ==
    (pc = "cal_eval" /\ cal.stage = "test") => netZoom = ZoomLevel(cal.idx) * 2

\* C19 (Spec): after the reset of the test scrolls the net number of scroll
\* clicks is zero, and when calibrate_zoom returns it is the best level x 2.
C19_ResetThenBest ==
    /\ [](pc = "cal_apply" => netZoom = 0)
    /\ [][ (pc \in CalPcs /\ pc' = "exec_phase")
           => netZoom' = cal.best_zoom_level * 2 ]_vars

\* C20 (Spec): during and after the loop over the zoom levels, the best level
\* is the first one measured, in the order 0, +1, +2, +3, -1, -2, -3, whose
\* quality is the largest measured.
C20_FirstBestLevelWins ==
    (pc \in {"cal_head", "cal_reset", "cal_apply"} /\ cal.zoom_results # <<>>)
    => LET zr == cal.zoom_results
           top == { i \in 1..Len(zr) : \A k \in 1..Len(zr) : zr[k][2] <= zr[i][2] }
           first == CHOOSE i \in top : \A k \in top : i <= k
       IN  /\ cal.best_zoom_level = zr[first][1]
           /\ cal.best_quality = zr[first][2]

C20_Witness ==
    /\ pc = "cal_reset"
    /\ Len(cal.zoom_results) = 7
    /\ \A i \in 1..7 : cal.zoom_results[i][2] = 30
    /\ cal.best_zoom_level = 0


\* C21 (Spec): a calibration that ends without a cancellation, by returning
\* true or false or by failing, is followed by the scan phase of execute_scan.
C21_CalibrationNeverStopsRun ==
    [][ (pc \in CalPcs /\ pc' \notin CalPcs /\ obs'.cancel # "SafetyExit")
        => pc' = "exec_phase" ]_vars


\* C22 (Spec): a window is prepared only if it is found and its client area is
\* at least 500x300; as long as none is prepared, execute_scan is at no
\* statement that scrolls, captures or drags, none of these has happened, and
\* the results are empty.
C22_NoWindowNoAction ==
    /\ wm = NoWindow =>
         /\ pc \in {"exec_init", "main_ret", "exit"}
         /\ netZoom = 0
         /\ obs.shot = None
         /\ obs.hist = <<>>
         /\ cadm = NoCadm
         /\ results = <<>>
    /\ wm # NoWindow =>
         /\ wm.client_rect[3] - wm.client_rect[1] >= WindowConfig.MIN_WINDOW_WIDTH
         /\ wm.client_rect[4] - wm.client_rect[2] >= WindowConfig.MIN_WINDOW_HEIGHT

C22_Witness ==
    /\ pc = "exit"
    /\ wm = NoWindow
    /\ obs.cancel = "none"
    /\ results = <<>>
    /\ exitCode = 1


\* C23 (Spec): a step inside the row/column loop that is not a cancellation
\* never makes perform_scan return on the spot: a failure ends the row like a
\* boundary, so perform_scan returns only from the end of its row loop, and
\* with the matches of the current row.
C23_FailureEndsRowOnly ==
    [][ ( /\ pc \in {"row_check", "row_capture", "row_search", "row_step", "row_after"}
          /\ obs'.cancel # "SafetyExit" )
        => /\ pc' # "exec_ret"
           /\ pc' = "scan_next" => loc'.targets_found = loc.targets_found \o loc.row_targets
      ]_vars


\* C24 (Spec): the phase of execute_scan never goes back; the zoom is scrolled
\* only during calibration, on an initialized scanner; a corner-finding drag
\* is made only after calibrate_zoom has ended; a tile or a test screenshot is
\* captured only after find_top_left_corner has returned.
C24_PhaseOrder ==
    /\ [][ /\ Phase' >= Phase
           /\ netZoom' # netZoom => (Phase = 1 /\ wm # NoWindow) ]_vars
    /\ [](cadm.site \in {"corner1", "corner2"} => (cal = NoCal /\ wm # NoWindow))
    /\ [](pc \in {"row_capture", "row_search", "test_capture", "test_analyze"}
          => obs.corner # "none")

C24_Witness ==
    /\ pc = "exit"
    /\ results # <<>>
    /\ netZoom # 0
    /\ obs.corner = "reached"
    /\ ~args.test_mode


\* C25 (SpecUnit): among the pairs with a kept detection (stripped text of at
\* least 2 characters, confidence above 20), extract_text_comprehensive
\* returns the joined text and the average confidence of the one whose
\* average is highest, the earliest of them on a tie; when no pair has a kept
\* detection, the best text is empty and the best confidence 0.
C25_BestPairWins ==
    call.fn = "extract_text_comprehensive" =>
        LET Kept(i) == IF \/ call.pairs[i].raises
                          \/ \E k \in 1..Len(call.pairs[i].ocr_data) :
                               ~call.pairs[i].ocr_data[k].conf_ok
                       THEN <<>>
                       ELSE SelectSeq(call.pairs[i].ocr_data,
                                      LAMBDA d : Len(strip(d.text)) >= 2 /\ d.conf > 20)
            Avg(i) == << SumSeq([ k \in 1..Len(Kept(i)) |-> Kept(i)[k].conf ]),
                         Len(Kept(i)) >>
            Text(i) == join([ k \in 1..Len(Kept(i)) |-> strip(Kept(i)[k].text) ])
            cand == { i \in 1..Len(call.pairs) : Kept(i) # <<>> }
        IN  IF cand = {}
            THEN outcome.best_text = <<>> /\ outcome.best_confidence = << 0, 1 >>
            ELSE \E b \in cand :
                   /\ \A k \in cand : Avg(k)[1] * Avg(b)[2] <= Avg(b)[1] * Avg(k)[2]
                   /\ \A k \in cand :
                        k < b => Avg(k)[1] * Avg(b)[2] < Avg(b)[1] * Avg(k)[2]
                   /\ outcome.best_text = Text(b)
                   /\ outcome.best_confidence = Avg(b)

C25_Witness ==
    /\ call.fn = "extract_text_comprehensive"
    /\ outcome.texts = << << "a", "b" >>, << "a", "b", " ", "c", "d" >>, << "x", "y" >> >>
    /\ outcome.best_text = << "a", "b", " ", "c", "d" >>
    /\ outcome.best_confidence = << 120, 2 >>

\* C26 (SpecUnit): a pair that raises changes nothing but its own share: every
\* later pair is run, and the best text, the best confidence and the
\* candidate texts returned are those of the same call without the raising
\* pairs.
C26_FailingPairIsolated ==
    call.fn = "extract_text_comprehensive" =>
        LET rest == extract_text_comprehensive(
                        SelectSeq(call.pairs,
                                  LAMBDA p : /\ ~p.raises
                                             /\ ~process_ocr_data(p.ocr_data).raised))
        IN  /\ outcome.best_text = rest.best_text
            /\ outcome.best_confidence = rest.best_confidence
            /\ outcome.texts = rest.texts
            /\ outcome.confidences = rest.confidences

C26_Witness ==
    /\ call.fn = "extract_text_comprehensive"
    /\ call.pairs[1].raises
    /\ ~call.pairs[2].raises
    /\ outcome.best_text = << "c", "d" >>
    /\ Len(outcome.texts) = 2


\* C27 (SpecUnit): with the default weights the quality score (in tenths) is
\* within 0..1000; a higher confidence, both within 0..100, gives a strictly
\* higher score, and so does a higher readable-word count, both within 0..4,
\* the other inputs being the same.
C27_QualityScoreMonotonic ==
    call.fn = "calculate_quality_score" =>
        /\ 0 <= outcome /\ outcome <= 1000
        /\ \A c \in ScoreConfidences :
             (call.confidence < c /\ c <= 100)
             => outcome < calculate_quality_score(c, call.height, call.text_count,
                              call.readable_words, ScanConfig.QUALITY_WEIGHTS)
        /\ \A r \in 0..4 :
             call.readable_words < r
             => outcome < calculate_quality_score(call.confidence, call.height,
                              call.text_count, r, ScanConfig.QUALITY_WEIGHTS)

C27_Witness ==
    /\ call.fn = "calculate_quality_score"
    /\ call.confidence = 99
    /\ call.readable_words = 3
    /\ call.height = 20
    /\ call.text_count = 7
    /\ outcome = 297 + 200 + 200 + 225


\* C28 (SpecUnit): calculate_overlap_step(size, p) is at most
\* size x (1 - p/100), so a frame and the frame one step further share at
\* least p percent of the frame; calculate_overlap_step(400, 15) is 340.
C28_OverlapStepBounded ==
    call.fn = "calculate_overlap_step" =>
        /\ outcome * 100 <= call.capture_size * (100 - call.overlap_percent)
        /\ (call.capture_size - outcome) * 100 >= call.capture_size * call.overlap_percent
        /\ (call.capture_size = 400 /\ call.overlap_percent = 15) => outcome = 340

C28_Witness ==
    /\ call.fn = "calculate_overlap_step"
    /\ call.capture_size = 400
    /\ call.overlap_percent = 15
    /\ outcome = 340


\* C29 (Spec): perform_test_mode(N) that reaches the end of its loop has
\* analysed N screenshots and returns their N records; a step is made after
\* each screenshot but the last, N-1 in all, each of one third of step_size to
\* the left; whatever the step reports, the next screenshot follows.
C29_TestModeWalk ==
    /\ [](cadm.site = "test" =>
            /\ cadm.dx = -(scn.step_size \div 3)
            /\ cadm.dy = 0
            /\ loc.screenshot_num < NumScreenshots - 1
            /\ Len(loc.all_detections) = loc.screenshot_num + 1)
    /\ [](pc = "test_done" =>
            /\ loc.screenshot_num = NumScreenshots
            /\ loc.all_detections = [ i \in 1..NumScreenshots |-> i ])
    /\ [][ (pc' # pc /\ obs'.cancel = "none") =>
             /\ (pc = "test_step" /\ loc.screenshot_num < NumScreenshots - 1)
                => (cadm'.site = "test" /\ pc' = "cadm_before")
             /\ (pc = "test_step" /\ loc.screenshot_num >= NumScreenshots - 1)
                => (cadm'.site = "none" /\ pc' = "test_head")
             /\ pc = "test_after"
                => /\ pc' = "test_head"
                   /\ loc'.screenshot_num = loc.screenshot_num + 1
                   /\ loc'.all_detections = loc.all_detections
             /\ pc = "test_done"
                => (pc' = "exec_ret" /\ results' = loc.all_detections)
         ]_vars

C29_Witness ==
    /\ pc = "exec_ret"
    /\ args.test_mode
    /\ obs.cancel = "none"
    /\ Len(results) = NumScreenshots
    /\ Len(obs.hist) = 2
    /\ obs.hist[2].site = "test"
    /\ ~obs.hist[2].moved


\* C30 (SpecUnit): the target of every drag of safe_drag, the centre plus the
\* displacement handed to pyautogui.drag, lies in the effective area shrunk by
\* 100px on every side; every place safe_drag and safe_move_mouse put the
\* cursor at lies in the client rectangle of the window.
C30_DragTargetInsideArea ==
    /\ call.fn = "safe_drag_moves" =>
         LET area == call.mc.effective_game_area
             w == call.mc.client_rect
             tx == call.mc.center_x + outcome.final_dx
             ty == call.mc.center_y + outcome.final_dy
         IN  /\ area[1] + 100 <= tx /\ tx <= area[1] + area[3] - 100
             /\ area[2] + 100 <= ty /\ ty <= area[2] + area[4] - 100
             /\ \A i \in 1..Len(outcome.cursor) :
                  /\ w[1] <= outcome.cursor[i][1] /\ outcome.cursor[i][1] <= w[3]
                  /\ w[2] <= outcome.cursor[i][2] /\ outcome.cursor[i][2] <= w[4]
    /\ call.fn = "_calculate_safe_coordinates" =>
         /\ call.mc.client_rect[1] <= outcome[1] /\ outcome[1] <= call.mc.client_rect[3]
         /\ call.mc.client_rect[2] <= outcome[2] /\ outcome[2] <= call.mc.client_rect[4]

C30_Witness ==
    /\ call.fn = "safe_drag_moves"
    /\ call.mc.client_rect = << 0, 0, 500, 300 >>
    /\ call.dx = 3000 /\ call.jitter_x = 102
    /\ call.dy = -652 /\ call.jitter_y = 98
    /\ call.cursor = << call.mc.center_x + 10, call.mc.center_y - 10 >>
    /\ outcome.final_dx = 105
    /\ outcome.final_dy = -20
    /\ outcome.cursor[2] = << 350, 114 >>


\* C31 (SpecUnit): every drag of safe_drag, the first and every later one of
\* a sequence, starts with the cursor within 10px of the centre on both axes,
\* and a safe_drag that succeeded leaves the cursor at the centre.
C31_DragStartsAndEndsCentred ==
    call.fn = "safe_drag_moves" =>
        LET start == outcome.cursor[1]
            left == outcome.cursor[Len(outcome.cursor)]
        IN  /\ start[1] - call.mc.center_x \in -10..10
            /\ start[2] - call.mc.center_y \in -10..10
            /\ left = << call.mc.center_x, call.mc.center_y >>

C31_Witness ==
    /\ call.fn = "safe_drag_moves"
    /\ call.n = 3
    /\ call.cursor = << call.mc.center_x + 11, call.mc.center_y >>
    /\ outcome.cursor[1] = << call.mc.center_x, call.mc.center_y >>
    /\ outcome.cursor[2] # outcome.cursor[1]


\* C32 (SpecScriptLoss): when the window is no longer valid at the top of a
\* row iteration of perform_scan or of a column iteration of _scan_row, the
\* iteration raises SafetyExit at once: no capture, no OCR and no drag of that
\* iteration takes place.
C32_WindowRecheckedEachIteration ==
    [][ ( /\ pc \in {"scan_head", "row_check"}
          /\ ~windowValid
          /\ ~(pc = "scan_head" /\ loc.row >= row_limit(args.max_rows)) )
        => ( /\ pc' = "exec_ret"
             /\ obs'.cancel = "SafetyExit"
             /\ obs'.hist = obs.hist
             /\ obs'.shot = obs.shot
             /\ loc' = loc
             /\ cadm' = cadm ) ]_vars

C32_Witness ==
    /\ harness = "script"
    /\ pc = "exec_ret"
    /\ ~windowValid
    /\ obs.cancel = "SafetyExit"
    /\ loc.row = 1
    /\ loc.col = 2
    /\ loc.scan_count = 1


\* C33 (SpecSession): when a run of calibrate_zoom completes, the first or a
\* later one of the session, optimal_zoom_level is the best level that run
\* chose, 0 when the unmodified zoom won.
C33_OptimalLevelIsThisRunsBest ==
    [][ (pc = "cal_eval" /\ cal.stage = "final" /\ pc' = "exec_phase")
        => scn'.optimal_zoom_level = cal.best_zoom_level ]_vars


\* C34 (Spec): a horizontal step of _scan_row whose two frames are less than
\* 98% alike is reported as movement, and the row scan goes on to the next
\* column: a row captures more than one tile.
C34_MeasurableStepAdvances ==
    [][ ( /\ pc = "cadm_detect"
          /\ cadm.site = "row"
          /\ cadm.similarity < ScanConfig.SIMILARITY_THRESHOLD
          /\ pc' = "row_after"
          /\ obs'.swallowed = "none" )
        => moved' ]_vars


\* C35 (Spec): when perform_scan returns, cut short or not, every match that
\* _scan_row recorded for a tile, those of the row in progress included, is in
\* the list returned.
C35_RecordedMatchesReturned ==
    (pc = "exec_ret" /\ ~args.test_mode)
    => \A i \in 1..Len(loc.row_targets) :
          \E j \in 1..Len(results) : results[j] = loc.row_targets[i]


\* C36 (Spec): once a signal has cleared the running flag, at whatever point
\* of execute_scan, no mouse drag is started and no zoom scroll is made: the
\* program is never at the drag of capture_and_detect_movement, no drag
\* completes, the test loop of calibrate_zoom scrolls no further level, and
\* the net zoom of the game stays as it is.
C36_NoDragOrScrollAfterSignal ==
    [][ ~running
        => /\ pc # "cadm_drag"
           /\ pc' \notin {"cadm_drag", "cadm_after"}
           /\ ~(pc = "cal_zoom" /\ pc' \in {"cal_capture", "cal_head"})
           /\ netZoom' = netZoom ]_vars

C36_Witness ==
    /\ pc = "cadm_before"
    /\ cadm.site = "row"
    /\ ~running
    /\ ~cadm.running_flag
    /\ Len(loc.row_targets) = 1


C38_VerticalStepOnlyBetweenRows ==
    (pc \in CadmPcs \cup {"scan_aftervert"} /\ cadm.site = "vert")
    => loc.row + 1 < Min(args.max_rows, CaptureConfig.MAX_ROWS_TOTAL)


\* C39 (SpecUnit): a pair that raises, before or while its OCR output is
\* processed, contributes nothing: the detections and the candidate texts
\* returned are those of the same call without the raising pairs.
C39_FailingPairContributesNothing ==
    call.fn = "extract_text_comprehensive" =>
        LET rest == extract_text_comprehensive(
                        SelectSeq(call.pairs,
                                  LAMBDA p : /\ ~p.raises
                                             /\ \A k \in 1..Len(p.ocr_data) :
                                                  p.ocr_data[k].conf_ok))
        IN  /\ outcome.all_detections = rest.all_detections
            /\ outcome.texts = rest.texts


\* C40 (SpecScriptFair): whatever the steps report and whatever max_rows is,
\* perform_scan returns; until then the corner search is at most at its 200th
\* attempt, a row at most at column max_columns_per_row, and the scan at most
\* at its 50th row.
C40_PerformScanTerminates ==
    /\ <>(pc = "exec_ret")
    /\ [](loc.attempt <= CaptureConfig.MAX_CORNER_SEARCH_ATTEMPTS)
    /\ [](loc.col <= scn.max_columns_per_row)
    /\ [](loc.row <= CaptureConfig.MAX_ROWS_TOTAL)

C40_Witness ==
    /\ pc = "exec_ret"
    /\ args.max_rows = LargeMaxRows
    /\ obs.corner = "exhausted"
    /\ loc.row = CaptureConfig.MAX_ROWS_TOTAL
    /\ loc.col = scn.max_columns_per_row

=============================================================================
